---- MODULE Spec2Model ----
(***************************************************************************)
(* Model of the LiteLLM configuration reconciler (litellm_scripts/config.py *)
(* with the resolved configuration produced by gen_config.py).             *)
(*                                                                         *)
(* The remote gateway is a store of credentials (by name), of model        *)
(* registrations (by id, several ids may share one (model_name,            *)
(* credential_name) key) and of router settings.  Every HTTP call is one   *)
(* atomic step that either succeeds and takes effect or fails and leaves   *)
(* the remote unchanged.  The worker threads of one batch interleave at    *)
(* the granularity of these calls.                                         *)
(***************************************************************************)
EXTENDS Integers, Sequences, FiniteSets, TLC

(***************************************************************************)
(* Bounds of the explored inputs.                                          *)
(***************************************************************************)
\* Largest number of entries in the config's credentials list.
MaxCreds == 2
\* Largest number of payloads in the config's models list.
MaxPayloads == 2
\* Largest number of remote registrations under one model key at the start.
MaxDup == 3

(***************************************************************************)
(* Program constants.                                                      *)
(***************************************************************************)
\* config.py:48-61, the keys of PROVIDER_CONFIG.
PROVIDER_CONFIG == {"openai", "gemini", "anthropic"}
\* config.py:449 and 520, ThreadPoolExecutor(max_workers=10).
max_workers == 10
\* config.py:628.
\* A slip in config.py:628: a name too many among the valid ones.
valid_components_lax ==
  {"credentials", "models", "aliases", "fallbacks", "bogus"}

valid_components == {"credentials", "models", "aliases", "fallbacks"}

\* The phases in the order main runs them (config.py:651-661), numbered.
PhaseNo(p) ==
  CASE p = "credentials" -> 1
    [] p = "models" -> 2
    [] p = "aliases" -> 3
    [] p = "fallbacks" -> 4
    [] OTHER -> 0

\* The place in main after a phase (config.py:651-664).
\* A slip in config.py:651-661: the aliases block placed before the models
\* block.
AfterPhaseAliasesFirst(phase) ==
  CASE phase = "credentials" -> "aliases?"
    [] phase = "aliases" -> "models?"
    [] phase = "models" -> "fallbacks?"
    [] OTHER -> "complete"

AfterPhase(phase) ==
  CASE phase = "credentials" -> "models?"
    [] phase = "models" -> "aliases?"
    [] phase = "aliases" -> "fallbacks?"
    [] phase = "fallbacks" -> "complete"

(***************************************************************************)
(* Small helpers on sets and sequences.                                    *)
(***************************************************************************)
Range(s) == {s[i] : i \in DOMAIN s}

Max2(a, b) == IF a >= b THEN a ELSE b
Min2(a, b) == IF a <= b THEN a ELSE b

\* The elements of order (a sequence without repetitions) that are in S,
\* in the order of order.
Listed(order, S) == SelectSeq(order, LAMBDA e : e \in S)

(***************************************************************************)
(* Credentials.                                                            *)
(***************************************************************************)
\* config.py:168 and 462: credential_name = f"{service_name}-{provider}".
\* The pair stands for the joined string; the join is injective on the
\* entries explored here (no provider name holds a hyphen).
CredentialName(service_name, provider) == <<service_name, provider>>

\* The entries a config's credentials list is drawn from: two known
\* interfaces and one that PROVIDER_CONFIG does not know.  api_key and
\* api_base are carried unchanged into the request body and decide nothing.
CredEntryOrder ==
  << [service_name |-> "a", provider |-> "openai"],
     [service_name |-> "a", provider |-> "gemini"],
     [service_name |-> "a", provider |-> "mistral"] >>

CredLists ==
  {Listed(CredEntryOrder, S) : S \in {T \in SUBSET Range(CredEntryOrder) : Cardinality(T) <= MaxCreds}}

\* The credential names the remote may hold at the start: the two the
\* config can expect and one that no config expects.
StrayCred == <<"x", "openai">>
RemoteCredOrder == << <<"a", "openai">>, <<"a", "gemini">>, StrayCred >>

(***************************************************************************)
(* State.                                                                  *)
(***************************************************************************)
VARIABLES
  args,                  \* the parsed command line: only, force, prune, dry_run, config_exists
  config,                \* generate_config's result: credentials, models, aliases, fallbacks
  gen,                   \* gen_config's deep_merge call: base, override, result
  keygen,                \* a run of create_api_key.py: main's locals, the users of the remote
  pc,                    \* where main is
  run,                   \* 1 in the first invocation, 2 in a repeated one
  remoteCreds,           \* the credential names the remote holds
  remoteModels,          \* the registrations the remote holds: [id, model_name, credential_name]
  router,                \* the remote's router settings, a mapping of setting name to value
  expected_credentials,  \* sync_credentials' set of expected names
  credTasks,             \* the create_credential_async tasks of the batch
  actor,                 \* sync_models' actor
  existing_models_cache, \* sync_models' cache: key -> list of ids
  expected_models,       \* sync_models' set of expected keys
  modelTasks,            \* the _sync_single_model tasks of the batch
  counts,                \* sync_models' created/replaced/deleted/failed counters
  todo,                  \* the rest of the list a prune loop iterates
  rt,                    \* update_aliases' / update_fallbacks' locals
  \* History, kept to state properties; the program does not read it.
  callPhase,             \* phase number of the latest remote call (0: none yet)
  maxPhase,              \* largest phase number of any remote call so far
  started,               \* the phases entered so far in this run, in order
  wrote,                 \* some create, replace or delete call was issued in this run
  allOk,                 \* every remote call of this run so far succeeded
  prevOk,                \* every remote call of the previous run succeeded
  batchReads,            \* reads of the remote list issued while the batch was running
  listReads,             \* reads of the remote list issued before the batch
  fetchOk,               \* the read of the remote list before the batch succeeded
  pruneLog,              \* the prune step: fetched, ok, held, reported, deletes
  before                 \* what the remote held of the phase's resource when the phase began

remote == <<remoteCreds, remoteModels, router>>
credLocals == <<expected_credentials, credTasks>>
modelLocals == <<actor, existing_models_cache, expected_models, modelTasks, counts>>
callHist == <<callPhase, maxPhase, wrote, allOk>>
phaseHist == <<batchReads, listReads, fetchOk, pruneLog, before>>
vars ==
  <<args, config, gen, keygen, pc, run, remote, credLocals, modelLocals, todo, rt,
    callHist, started, prevOk, phaseHist>>

\* One remote call of phase number p returned; write says it was a create,
\* replace or delete call, ok that it succeeded.
Call(p, write, ok) ==
  /\ callPhase' = p
  /\ maxPhase' = Max2(maxPhase, p)
  /\ wrote' = (wrote \/ write)
  /\ allOk' = (allOk /\ ok)

\* The record of a prune step: whether its read of the remote list was
\* issued (fetched) and succeeded (ok), what the remote held then (held), the
\* list the read gave (reported), the targets of the delete calls issued
\* (deletes) and those of them whose call failed (refused).
NoPrune ==
  [fetched |-> FALSE, ok |-> FALSE, held |-> {}, reported |-> <<>>,
   deletes |-> <<>>, refused |-> <<>>]

(***************************************************************************)
(* The worker pool (config.py:449, 469 and 520, 534).                      *)
(***************************************************************************)
\* The tasks a worker thread is running: started and not yet returned.
Running(tasks) ==
  Cardinality({i \in DOMAIN tasks : tasks[i].pc \notin {"pending", "done"}})

\* A slip in config.py:469 and 534: the caller goes on at the first task
\* that has returned (asyncio.wait with FIRST_COMPLETED).
gather_first_completed(tasks) ==
  tasks = <<>> \/ \E i \in DOMAIN tasks : tasks[i].pc = "done"

\* A slip in config.py:469 and 534: the caller goes on at the first task
\* that has failed, the tasks not yet begun being cancelled.
gather_fail_fast(tasks) ==
  \/ \A i \in DOMAIN tasks : tasks[i].pc = "done"
  \/ /\ \E i \in DOMAIN tasks : tasks[i].pc = "done" /\ ~tasks[i].success
     /\ \A i \in DOMAIN tasks : tasks[i].pc \in {"pending", "done"}

\* asyncio.gather over the batch, inside `with ThreadPoolExecutor`: the
\* caller goes on when every task has returned.
gather(tasks) == \A i \in DOMAIN tasks : tasks[i].pc = "done"

(***************************************************************************)
(* sync_credentials (config.py:441-481).                                   *)
(***************************************************************************)
\* A slip in config.py:150-152: a failed GET taken as "the name exists".
credential_exists_unless_known(credential_name, ok, creds) ==
  ~ok \/ credential_name \in creds

\* config.py:147-158: credential_exists; ok is whether its GET succeeded.
credential_exists(credential_name, ok, creds) == ok /\ credential_name \in creds

\* config.py:132-144: get_all_credentials; a failed GET gives the empty list.
get_all_credentials(ok, creds) == IF ok THEN Listed(RemoteCredOrder, creds) ELSE <<>>

NameOf(cred) == CredentialName(cred.service_name, cred.provider)

\* config.py:452-467: the entries of the list that get a task, in order.
KnownCredentials(credentials) ==
  SelectSeq(credentials, LAMBDA c : c.provider \in PROVIDER_CONFIG)

NewCredTask(cred) ==
  [cred |-> cred, pc |-> "pending", exists |-> FALSE, had |-> FALSE,
   check_ok |-> FALSE,
   action |-> "none", success |-> FALSE, deletes |-> 0, posts |-> 0,
   \* History: the delete calls of the task that failed.
   refused |-> 0]

\* A slip in config.py:171-176: an existing credential is replaced whatever
\* force is.
CredBranchAlwaysReplace(exists, force) == IF exists THEN "delete" ELSE "post"

\* config.py:170-178: the branch create_credential takes on the result of
\* credential_exists.
CredBranch(exists, force) ==
  IF exists THEN (IF force THEN "delete" ELSE "done") ELSE "post"

\* A slip in config.py:475: the prune loop deletes every name it is given.
PruneCredentialAll(cred_name, expected) == TRUE

\* config.py:475: the names of the fetched list the prune loop deletes.
PruneCredential(cred_name, expected) == cred_name \notin expected

\* A slip in config.py:172-173 and 265-266: a delete that failed ends the
\* task, which reports a failure.
AfterDeleteChecked(ok, last) ==
  IF ~ok THEN "done" ELSE IF last THEN "post" ELSE "delete"

\* config.py:172-173 and 265-266: the result of a delete call is dropped;
\* after the last delete of the task (last) the create call follows.
AfterDelete(ok, last) == IF last THEN "post" ELSE "delete"

\* A slip in config.py:180-193 and 300-310: a create that failed is tried
\* again.
AfterCreateRetry(ok) == IF ok THEN "done" ELSE "post"

\* config.py:180-193 and 300-310: the task returns after its one create
\* call, whatever the result.
AfterCreate(ok) == "done"

\* main, config.py:651-652, and sync_credentials, config.py:446-467: the
\* expected set and one task per entry with a known provider.
sync_credentials ==
  /\ pc = "credentials?"
  /\ "credentials" \in Range(args.only)
  /\ LET known == KnownCredentials(config.credentials) IN
       /\ expected_credentials' = {NameOf(known[i]) : i \in DOMAIN known}
       /\ credTasks' = [i \in DOMAIN known |-> NewCredTask(known[i])]
  /\ pc' = "credentials_batch"
  /\ started' = Append(started, "credentials")
  /\ before' = remoteCreds
  /\ UNCHANGED <<args, config, gen, keygen, run, remote, modelLocals, todo, rt, callHist,
                 prevOk, batchReads, listReads, fetchOk, pruneLog>>

\* config.py:165-178 in a worker thread: credential_exists and the branch.
create_credential_check(i) ==
  /\ pc = "credentials_batch"
  /\ credTasks[i].pc = "pending"
  /\ Running(credTasks) < max_workers
  /\ \E ok \in BOOLEAN :
       LET t == credTasks[i]
           exists == credential_exists(NameOf(t.cred), ok, remoteCreds)
           next == CredBranch(exists, args.force)
       IN /\ credTasks' =
               [credTasks EXCEPT ![i] =
                  [t EXCEPT !.exists = exists,
                            !.had = NameOf(t.cred) \in remoteCreds,
                            !.check_ok = ok,
                            !.pc = next,
                            !.action = IF next = "done" THEN "skipped"
                                       ELSE IF next = "post" THEN "created"
                                       ELSE "none",
                            !.success = (next = "done")]]
          /\ Call(1, FALSE, ok)
  /\ batchReads' = batchReads + 1
  /\ UNCHANGED <<args, config, gen, keygen, pc, run, remote, expected_credentials,
                 modelLocals, todo, rt, started, prevOk, listReads,
                 fetchOk, pruneLog, before>>

\* config.py:172-173: delete_credential, its result dropped.
create_credential_delete(i) ==
  /\ pc = "credentials_batch"
  /\ credTasks[i].pc = "delete"
  /\ \E ok \in BOOLEAN :
       LET t == credTasks[i] IN
       /\ remoteCreds' = IF ok THEN remoteCreds \ {NameOf(t.cred)} ELSE remoteCreds
       /\ credTasks' =
            [credTasks EXCEPT ![i] =
               [t EXCEPT !.pc = AfterDelete(ok, TRUE), !.action = "replaced",
                         !.deletes = t.deletes + 1,
                         !.refused = IF ok THEN @ ELSE @ + 1]]
       /\ Call(1, TRUE, ok)
  /\ UNCHANGED <<args, config, gen, keygen, pc, run, remoteModels, router,
                 expected_credentials, modelLocals, todo, rt, started, prevOk,
                 phaseHist>>

\* config.py:180-193: POST credentials, and the result the task reports
\* (config.py:196-215).
create_credential_post(i) ==
  /\ pc = "credentials_batch"
  /\ credTasks[i].pc = "post"
  /\ \E ok \in BOOLEAN :
       LET t == credTasks[i] IN
       /\ remoteCreds' = IF ok THEN remoteCreds \cup {NameOf(t.cred)} ELSE remoteCreds
       /\ credTasks' =
            [credTasks EXCEPT ![i] =
               [t EXCEPT !.pc = AfterCreate(ok), !.success = ok,
                         !.posts = t.posts + 1]]
       /\ Call(1, TRUE, ok)
  /\ UNCHANGED <<args, config, gen, keygen, pc, run, remoteModels, router,
                 expected_credentials, modelLocals, todo, rt, started, prevOk,
                 phaseHist>>

\* config.py:469-471: the batch is gathered; without --prune the function
\* returns.
sync_credentials_gathered ==
  /\ pc = "credentials_batch"
  /\ gather(credTasks)
  /\ pc' = IF args.prune THEN "credentials_prune" ELSE AfterPhase("credentials")
  /\ UNCHANGED <<args, config, gen, keygen, run, remote, credLocals, modelLocals, todo, rt,
                 callHist, started, prevOk, phaseHist>>

\* config.py:473: the prune step reads the remote list again.
sync_credentials_prune_fetch ==
  /\ pc = "credentials_prune"
  /\ \E ok \in BOOLEAN :
       LET existing_credentials == get_all_credentials(ok, remoteCreds) IN
       /\ todo' = existing_credentials
       /\ pruneLog' = [fetched |-> TRUE, ok |-> ok, held |-> remoteCreds,
                       reported |-> existing_credentials, deletes |-> <<>>,
                       refused |-> <<>>]
       /\ pc' = IF existing_credentials = <<>> THEN AfterPhase("credentials")
                ELSE "credentials_prune_loop"
       /\ Call(1, FALSE, ok)
  /\ UNCHANGED <<args, config, gen, keygen, run, remote, credLocals, modelLocals, rt,
                 started, prevOk, batchReads, listReads, fetchOk, before>>

\* config.py:474-481: one turn of the prune loop.
sync_credentials_prune_step ==
  /\ pc = "credentials_prune_loop"
  /\ LET cred_name == Head(todo) IN
       IF PruneCredential(cred_name, expected_credentials)
       THEN \E ok \in BOOLEAN :
              /\ remoteCreds' = IF ok THEN remoteCreds \ {cred_name} ELSE remoteCreds
              /\ pruneLog' = [pruneLog EXCEPT
                                !.deletes = Append(@, cred_name),
                                !.refused = IF ok THEN @ ELSE Append(@, cred_name)]
              /\ Call(1, TRUE, ok)
       ELSE UNCHANGED <<remoteCreds, pruneLog, callHist>>
  /\ todo' = Tail(todo)
  /\ pc' = IF Tail(todo) = <<>> THEN AfterPhase("credentials")
           ELSE "credentials_prune_loop"
  /\ UNCHANGED <<args, config, gen, keygen, run, remoteModels, router, credLocals,
                 modelLocals, rt, started, prevOk, batchReads, listReads,
                 fetchOk, before>>

(***************************************************************************)
(* Model registrations.                                                    *)
(***************************************************************************)
\* A payload of the config's models list (gen_config.py:215-221), with the
\* fields the reconciler reads: model_name and litellm_credential_name make
\* the key; model tells two payloads of one key apart.
Payload(model_name, service_name, provider, model_id) ==
  [model_name |-> model_name,
   litellm_credential_name |-> CredentialName(service_name, provider),
   model |-> <<provider, model_id>>]

\* Two payloads that resolve to the same key (two model ids of one interface
\* given the same model_name) and one of another key.
PayloadOrder ==
  << Payload("m1", "a", "openai", "m1"),
     Payload("m1", "a", "openai", "m1-v2"),
     Payload("m2", "a", "gemini", "m2") >>

PayloadLists ==
  {Listed(PayloadOrder, S) : S \in {T \in SUBSET Range(PayloadOrder) : Cardinality(T) <= MaxPayloads}}

\* config.py:259 and 526: the key of a payload.
KeyOf(payload) == <<payload.model_name, payload.litellm_credential_name>>

\* The keys the remote may hold registrations under at the start: the two a
\* config can expect and one no config expects (the name of an expected
\* model under another credential).
RemoteKeyOrder ==
  << <<"m1", CredentialName("a", "openai")>>,
     <<"m2", CredentialName("a", "gemini")>>,
     <<"m1", CredentialName("a", "gemini")>> >>

\* The registrations of a remote that holds n[k] registrations under the
\* k-th key; ids are numbered key by key.
Registrations(n) ==
  {[id |-> (k - 1) * MaxDup + j, model_name |-> RemoteKeyOrder[k][1],
    credential_name |-> RemoteKeyOrder[k][2]] :
     <<k, j>> \in {kj \in (DOMAIN RemoteKeyOrder) \X (1..MaxDup) : kj[2] <= n[kj[1]]}}

\* How many registrations each key holds at the start: up to MaxDup in all.
RemoteCounts ==
  {n \in [DOMAIN RemoteKeyOrder -> 0..MaxDup] : n[1] + n[2] + n[3] <= MaxDup}

\* The id the remote gives the registration task i creates in run r: one
\* that no other registration has.
NewId(r, i) == Len(RemoteKeyOrder) * MaxDup + (r - 1) * MaxPayloads + i

RECURSIVE SortedSeq(_)
SortedSeq(S) ==
  IF S = {} THEN <<>>
  ELSE LET m == CHOOSE x \in S : \A y \in S : x <= y
       IN <<m>> \o SortedSeq(S \ {m})

\* config.py:223-235: get_all_models, the list of (model_name,
\* credential_name, id) in the remote's order (by id); a failed GET gives
\* the empty list.  Every registration of the model has a name and an id.
get_all_models(ok, models) ==
  IF ok
  THEN LET ids == SortedSeq({m.id : m \in models})
           reg(id) == CHOOSE m \in models : m.id = id
       IN [i \in DOMAIN ids |->
             <<reg(ids[i]).model_name, reg(ids[i]).credential_name, ids[i]>>]
  ELSE <<>>

\* config.py:501-507: the cache, key -> the ids under it in list order.
BuildCache(all_models) ==
  [key \in {<<all_models[i][1], all_models[i][2]>> : i \in DOMAIN all_models} |->
     LET under == SelectSeq(all_models, LAMBDA m : <<m[1], m[2]>> = key)
     IN [i \in DOMAIN under |-> under[i][3]]]

\* config.py:260: existing_models_cache.get(model_key, []).
CacheGet(cache, key) == IF key \in DOMAIN cache THEN cache[key] ELSE <<>>

NoCounts ==
  [created |-> 0, replaced |-> 0, deleted |-> 0, failed |-> 0, icon |-> "none"]

NewModelTask(payload) ==
  [payload |-> payload, pc |-> "pending", model_ids |-> <<>>,
   action |-> "none", success |-> FALSE, duplicates_deleted |-> 0,
   deletes |-> <<>>, posts |-> 0,
   \* History: the delete calls of the task that failed.
   refused |-> 0,
   \* The audit fields of the model_info the task sent (none yet).
   audit |-> <<>>]

\* config.py:277-291: the audit fields _create_model puts into model_info,
\* for either action; "now" stands for the timestamp.
AuditFields(action, by) ==
  [updated_at |-> "now", updated_by |-> by, created_at |-> "now", created_by |-> by]

\* A slip in config.py:263-273: without force a model with cached ids is
\* registered once more instead of being skipped.
ModelBranchNoSkip(model_ids, force) ==
  IF model_ids # <<>> /\ force THEN "delete" ELSE "post"

\* A slip in config.py:263-268: under force the cached ids are not deleted
\* before the create call.
ModelBranchKeepsOld(model_ids, force) ==
  IF model_ids # <<>> /\ ~force THEN "done" ELSE "post"

\* config.py:263-273: the branch _create_model takes on the cached ids.
ModelBranch(model_ids, force) ==
  IF model_ids # <<>> THEN (IF force THEN "delete" ELSE "done") ELSE "post"

\* A slip in config.py:267: every deleted id counted as a duplicate.
DuplicatesDeletedAll(model_ids) == Len(model_ids)

\* config.py:267.
DuplicatesDeleted(model_ids) == Len(model_ids) - 1

\* A slip in config.py:535-542: a skipped payload counted as created, and a
\* replace that adds nothing to the deleted counter.
RECURSIVE CountResultsLoose(_, _)
CountResultsLoose(results, c) ==
  IF results = <<>> THEN c
  ELSE LET r == Head(results)
           c1 == IF r.success /\ r.action # "replaced"
                 THEN [c EXCEPT !.created = @ + 1]
                 ELSE IF r.success
                 THEN [c EXCEPT !.replaced = @ + 1]
                 ELSE [c EXCEPT !.failed = @ + 1]
       IN CountResultsLoose(Tail(results), c1)

\* config.py:535-542: the counters after the batch.
RECURSIVE CountResults(_, _)
CountResults(results, c) ==
  IF results = <<>> THEN c
  ELSE LET r == Head(results)
           c1 == IF r.success /\ r.action = "created"
                 THEN [c EXCEPT !.created = @ + 1]
                 ELSE IF r.success /\ r.action = "replaced"
                 THEN [c EXCEPT !.replaced = @ + 1,
                                !.deleted = @ + r.duplicates_deleted]
                 ELSE IF ~r.success
                 THEN [c EXCEPT !.failed = @ + 1]
                 ELSE c
       IN CountResults(Tail(results), c1)

\* A slip in config.py:548: the fetched list matched to the expected set by
\* model_name alone.
PruneModelByName(model_name, credential_name, expected) ==
  \A key \in expected : key[1] # model_name

\* config.py:548: the registrations of the fetched list the prune loop deletes.
PruneModel(model_name, credential_name, expected) ==
  <<model_name, credential_name>> \notin expected

\* A slip in config.py:560-566: the two tests in the other order.
IconFailureFirst(c) ==
  LET total_ops == c.created + c.replaced + c.deleted + c.failed IN
  IF c.failed = total_ops THEN "failure"
  ELSE IF c.failed = 0 THEN "success"
  ELSE "partial"

\* config.py:560-566: the status icon.
Icon(c) ==
  LET total_ops == c.created + c.replaced + c.deleted + c.failed IN
  IF c.failed = 0 THEN "success"
  ELSE IF c.failed = total_ops THEN "failure"
  ELSE "partial"

(***************************************************************************)
(* sync_models (config.py:484-569).                                        *)
(***************************************************************************)
\* config.py:559-568: the counters as sync_models reports them when it
\* returns (last says it does), with the status icon.
Reported(c, last) == IF last THEN [c EXCEPT !.icon = Icon(c)] ELSE c

\* main, config.py:654-655, and sync_models, config.py:489: the actor, from
\* GET key/info (config.py:69-83); a failed call gives the key's prefix.
sync_models ==
  /\ pc = "models?"
  /\ "models" \in Range(args.only)
  /\ \E ok \in BOOLEAN :
       /\ actor' = IF ok THEN "user_id" ELSE "key_prefix"
       /\ Call(2, FALSE, ok)
  /\ pc' = "models_fetch"
  /\ started' = Append(started, "models")
  /\ expected_credentials' = {}
  /\ credTasks' = <<>>
  /\ counts' = NoCounts
  /\ batchReads' = 0
  /\ listReads' = 0
  /\ fetchOk' = FALSE
  /\ pruneLog' = NoPrune
  /\ before' = remoteModels
  /\ todo' = <<>>
  /\ UNCHANGED <<args, config, gen, keygen, run, remote, existing_models_cache,
                 expected_models, modelTasks, rt, prevOk>>

\* config.py:500-532: the cache is read once, then one task per payload.
sync_models_fetch ==
  /\ pc = "models_fetch"
  /\ \E ok \in BOOLEAN :
       /\ existing_models_cache' = BuildCache(get_all_models(ok, remoteModels))
       /\ fetchOk' = ok
       /\ Call(2, FALSE, ok)
  /\ expected_models' = {KeyOf(config.models[i]) : i \in DOMAIN config.models}
  /\ modelTasks' = [i \in DOMAIN config.models |-> NewModelTask(config.models[i])]
  /\ listReads' = listReads + 1
  /\ pc' = "models_batch"
  /\ UNCHANGED <<args, config, gen, keygen, run, remote, credLocals, actor, counts, todo,
                 rt, started, prevOk, batchReads, pruneLog, before>>

\* config.py:255-273 in a worker thread: the cache lookup and the branch.
create_model_lookup(i) ==
  /\ pc = "models_batch"
  /\ modelTasks[i].pc = "pending"
  /\ Running(modelTasks) < max_workers
  /\ LET t == modelTasks[i]
         model_ids == CacheGet(existing_models_cache, KeyOf(t.payload))
         next == ModelBranch(model_ids, args.force)
     IN modelTasks' =
          [modelTasks EXCEPT ![i] =
             [t EXCEPT !.model_ids = model_ids,
                       !.pc = next,
                       !.action = IF next = "post" THEN "created" ELSE "none",
                       !.success = (next = "done")]]
  /\ UNCHANGED <<args, config, gen, keygen, pc, run, remote, credLocals, actor,
                 existing_models_cache, expected_models, counts, todo, rt,
                 callHist, started, prevOk, phaseHist>>

\* config.py:265-268: delete_model_by_id for the next cached id, its result
\* dropped; after the last one the action is "replaced".
create_model_delete(i) ==
  /\ pc = "models_batch"
  /\ modelTasks[i].pc = "delete"
  /\ \E ok \in BOOLEAN :
       LET t == modelTasks[i]
           model_id == t.model_ids[Len(t.deletes) + 1]
           last == Len(t.deletes) + 1 = Len(t.model_ids)
       IN /\ remoteModels' =
               IF ok THEN {m \in remoteModels : m.id # model_id} ELSE remoteModels
          /\ modelTasks' =
               [modelTasks EXCEPT ![i] =
                  [t EXCEPT !.deletes = Append(@, model_id),
                            !.refused = IF ok THEN @ ELSE @ + 1,
                            !.pc = AfterDelete(ok, last),
                            !.duplicates_deleted =
                               IF last THEN DuplicatesDeleted(t.model_ids) ELSE @,
                            !.action = IF last THEN "replaced" ELSE @]]
          /\ Call(2, TRUE, ok)
  /\ UNCHANGED <<args, config, gen, keygen, pc, run, remoteCreds, router, credLocals, actor,
                 existing_models_cache, expected_models, counts, todo, rt,
                 started, prevOk, phaseHist>>

\* config.py:275-310: POST model/new and the result of the task.
create_model_post(i) ==
  /\ pc = "models_batch"
  /\ modelTasks[i].pc = "post"
  /\ \E ok \in BOOLEAN :
       LET t == modelTasks[i] IN
       /\ remoteModels' =
            IF ok
            THEN remoteModels \cup
                   {[id |-> NewId(run, i), model_name |-> t.payload.model_name,
                     credential_name |-> t.payload.litellm_credential_name]}
            ELSE remoteModels
       /\ modelTasks' =
            [modelTasks EXCEPT ![i] =
               [t EXCEPT !.pc = AfterCreate(ok), !.success = ok,
                         !.posts = t.posts + 1,
                         !.audit = AuditFields(t.action, actor)]]
       /\ Call(2, TRUE, ok)
  /\ UNCHANGED <<args, config, gen, keygen, pc, run, remoteCreds, router, credLocals, actor,
                 existing_models_cache, expected_models, counts, todo, rt,
                 started, prevOk, phaseHist>>

\* config.py:534-544: the batch is gathered and counted; without --prune the
\* function reports and returns.
sync_models_gathered ==
  /\ pc = "models_batch"
  /\ gather(modelTasks)
  /\ counts' = Reported(CountResults(modelTasks, counts), ~args.prune)
  /\ pc' = IF args.prune THEN "models_prune" ELSE AfterPhase("models")
  /\ UNCHANGED <<args, config, gen, keygen, run, remote, credLocals, actor,
                 existing_models_cache, expected_models, modelTasks, todo, rt,
                 callHist, started, prevOk, phaseHist>>

\* config.py:546: the prune step reads the remote list again.
sync_models_prune_fetch ==
  /\ pc = "models_prune"
  /\ \E ok \in BOOLEAN :
       LET existing_models == get_all_models(ok, remoteModels) IN
       /\ todo' = existing_models
       /\ pruneLog' = [fetched |-> TRUE, ok |-> ok, held |-> remoteModels,
                       reported |-> existing_models, deletes |-> <<>>,
                       refused |-> <<>>]
       /\ pc' = IF existing_models = <<>> THEN AfterPhase("models")
                ELSE "models_prune_loop"
       /\ counts' = Reported(counts, existing_models = <<>>)
       /\ Call(2, FALSE, ok)
  /\ UNCHANGED <<args, config, gen, keygen, run, remote, credLocals, actor,
                 existing_models_cache, expected_models, modelTasks, rt,
                 started, prevOk, batchReads, listReads, fetchOk, before>>

\* config.py:547-558: one turn of the prune loop.
sync_models_prune_step ==
  /\ pc = "models_prune_loop"
  /\ LET m == Head(todo) IN
       IF PruneModel(m[1], m[2], expected_models)
       THEN \E ok \in BOOLEAN :
              /\ remoteModels' =
                   IF ok THEN {r \in remoteModels : r.id # m[3]} ELSE remoteModels
              /\ counts' = Reported(IF ok THEN [counts EXCEPT !.deleted = @ + 1]
                                    ELSE [counts EXCEPT !.failed = @ + 1],
                                    Tail(todo) = <<>>)
              /\ pruneLog' = [pruneLog EXCEPT
                                !.deletes = Append(@, m[3]),
                                !.refused = IF ok THEN @ ELSE Append(@, m[3])]
              /\ Call(2, TRUE, ok)
       ELSE /\ counts' = Reported(counts, Tail(todo) = <<>>)
            /\ UNCHANGED <<remoteModels, pruneLog, callHist>>
  /\ todo' = Tail(todo)
  /\ pc' = IF Tail(todo) = <<>> THEN AfterPhase("models") ELSE "models_prune_loop"
  /\ UNCHANGED <<args, config, gen, keygen, run, remoteCreds, router, credLocals, actor,
                 existing_models_cache, expected_models, modelTasks, rt,
                 started, prevOk, batchReads, listReads, fetchOk, before>>

(***************************************************************************)
(* Router settings, aliases and fallbacks.                                 *)
(***************************************************************************)
\* A Python dict is a function; these are dict.get and dict.update.
EmptyDict == [k \in {} |-> k]
Get(d, k, default) == IF k \in DOMAIN d THEN d[k] ELSE default
Updated(d, u) ==
  [k \in DOMAIN d \cup DOMAIN u |-> IF k \in DOMAIN u THEN u[k] ELSE d[k]]

\* A slip in config.py:361 and 401: the test for an empty value left out.
FalsyNever(v) == FALSE

\* `not aliases`, `not fallbacks`: an empty dict or list.
Falsy(v) == DOMAIN v = {}

\* The alias maps a config may ask for: none, an alias of an expected
\* model, an alias of a model nobody registers, and an alias of an alias.
AliasMaps ==
  { EmptyDict,
    [best |-> "m1"],
    [best |-> "ghost"],
    [best |-> "m1", fast |-> "best"] }

\* The fallback lists a config may ask for: none, one rule, the same rule
\* with its targets in the other order, two rules, and the two rules in the
\* other order.
Rule(source, targets) == [k \in {source} |-> targets]
FallbackLists ==
  { <<>>,
    << Rule("m1", <<"m2", "best">>) >>,
    << Rule("m1", <<"best", "m2">>) >>,
    << Rule("m1", <<"m2", "best">>), Rule("ghost", <<"m1">>) >>,
    << Rule("ghost", <<"m1">>), Rule("m1", <<"m2", "best">>) >> }

\* A slip in config.py:329-331: a failed GET taken as the settings the
\* remote holds.
get_router_settings_lenient(ok, settings) == settings

\* config.py:327-332: get_router_settings; a failed GET gives {}.
get_router_settings(ok, settings) == IF ok THEN settings ELSE EmptyDict

\* config.py:355-357 and 395-397.
get_current_aliases(ok, settings) ==
  Get(get_router_settings(ok, settings), "model_group_alias", EmptyDict)
get_current_fallbacks(ok, settings) ==
  Get(get_router_settings(ok, settings), "fallbacks", <<>>)

\* config.py:367 and 407: the skip test of update_aliases / update_fallbacks.
\* A slip in config.py:367 and 407: the two values compared as collections
\* of their elements, whatever the order.
UpToDateUnordered(force, current, desired) ==
  ~force /\ Range(current) = Range(desired) /\ DOMAIN current = DOMAIN desired

\* A slip in config.py:367 and 407: the comparison made whatever force is.
UpToDateIgnoringForce(force, current, desired) == current = desired

UpToDate(force, current, desired) == ~force /\ current = desired

\* A slip in config.py:343-346: only the updates are sent.
MergedSettingsOnlyUpdates(current, updates) == updates

\* A slip in config.py:343-346: the alias map that was read is merged with
\* the desired one instead of being replaced by it.
MergedSettingsKeepAliases(current, updates) ==
  Updated(current,
          [k \in DOMAIN updates |->
             IF k = "model_group_alias" /\ k \in DOMAIN current
             THEN Updated(current[k], updates[k]) ELSE updates[k]])

\* config.py:343-346: the router_settings object update_router_settings sends.
MergedSettings(current, updates) == Updated(current, updates)

\* POST config/update on the remote: the settings sent overwrite the stored
\* ones key by key (last write wins per setting).
ConfigUpdate(stored, sent) == Updated(stored, sent)

\* POST config/update on a remote that keeps no setting it is not sent: the
\* tool does not say which of the two the remote does, and merges itself.
ConfigReplace(stored, sent) == sent

\* config.py:376-383: the aliases whose target is no model and no alias.
AliasWarnings(aliases, existing_models) ==
  {a \in DOMAIN aliases : aliases[a] \notin (existing_models \cup DOMAIN aliases)}

\* config.py:416-429: the fallback sources and targets that are no model and
\* no alias.
FallbackWarnings(fallbacks, existing_models, current_aliases) ==
  LET valid_targets == existing_models \cup current_aliases IN
  UNION {UNION {({source_model} \cup Range(fallbacks[i][source_model])) \ valid_targets :
                   source_model \in DOMAIN fallbacks[i]} : i \in DOMAIN fallbacks}

\* A slip in config.py:387 and 433: an unresolved name fails the update.
ReturnedResultStrict(result, warnings) ==
  IF warnings # {} THEN "failed" ELSE result

\* config.py:387 and 433: return success, result -- the result of the push,
\* whatever the validation logged.
ReturnedResult(result, warnings) == result

NoRt ==
  [key |-> "none", current |-> EmptyDict, settings |-> EmptyDict,
   sent |-> EmptyDict, pushes |-> 0, result |-> "none",
   existing_models |-> {}, warnings |-> {},
   \* History: whether update_router_settings' read succeeded, what the
   \* remote stored when the push was issued, and whether the read of the
   \* skip test succeeded.
   read_ok |-> FALSE, stored |-> EmptyDict, compared_ok |-> FALSE]

\* The setting a phase updates, its desired value and its phase number.
SettingOf(phase) == IF phase = "aliases" THEN "model_group_alias" ELSE "fallbacks"
DesiredOf(phase) == IF phase = "aliases" THEN config.aliases ELSE config.fallbacks
\* What main's next step forgets: the locals of the function that returned
\* and the history of its phase.
Forget ==
  /\ expected_credentials' = {}
  /\ credTasks' = <<>>
  /\ actor' = "none"
  /\ existing_models_cache' = EmptyDict
  /\ expected_models' = {}
  /\ modelTasks' = <<>>
  /\ counts' = NoCounts
  /\ todo' = <<>>
  /\ batchReads' = 0
  /\ listReads' = 0
  /\ fetchOk' = FALSE
  /\ pruneLog' = NoPrune
  /\ before' = {}

\* main, config.py:657-661, sync_aliases / sync_fallbacks, config.py:572-587,
\* and update_aliases / update_fallbacks, config.py:361-363 and 401-403: an
\* empty desired value returns at once.
update_empty(phase) ==
  /\ pc = phase \o "?"
  /\ phase \in Range(args.only)
  /\ Falsy(DesiredOf(phase))
  /\ rt' = [NoRt EXCEPT !.key = SettingOf(phase), !.result = "nothing to update"]
  /\ pc' = AfterPhase(phase)
  /\ started' = Append(started, phase)
  /\ Forget
  /\ UNCHANGED <<args, config, gen, keygen, run, remote, callHist, prevOk>>

\* config.py:365-369 and 405-409: the current value is read and compared.
update_read(phase) ==
  /\ pc = phase \o "?"
  /\ phase \in Range(args.only)
  /\ ~Falsy(DesiredOf(phase))
  /\ \E ok \in BOOLEAN :
       LET current == IF phase = "aliases" THEN get_current_aliases(ok, router)
                      ELSE get_current_fallbacks(ok, router)
           skip == UpToDate(args.force, current, DesiredOf(phase))
       IN /\ rt' = [NoRt EXCEPT !.key = SettingOf(phase), !.current = current,
                                !.compared_ok = ok,
                                !.result = IF skip THEN "skipped" ELSE "none"]
          /\ pc' = IF skip THEN AfterPhase(phase) ELSE phase \o "_settings"
          /\ Call(PhaseNo(phase), FALSE, ok)
  /\ started' = Append(started, phase)
  /\ Forget
  /\ UNCHANGED <<args, config, gen, keygen, run, remote, prevOk>>

\* config.py:340-346: update_router_settings reads the settings and merges.
update_router_settings_get(phase) ==
  /\ pc = phase \o "_settings"
  /\ \E ok \in BOOLEAN :
       LET current == get_router_settings(ok, router) IN
       /\ rt' = [rt EXCEPT !.settings = current,
                           !.read_ok = ok,
                           !.sent = MergedSettings(current,
                                      [k \in {SettingOf(phase)} |-> DesiredOf(phase)])]
       /\ Call(PhaseNo(phase), FALSE, ok)
  /\ pc' = phase \o "_post"
  /\ UNCHANGED <<args, config, gen, keygen, run, remote, credLocals, modelLocals, todo,
                 started, prevOk, phaseHist>>

\* A slip in config.py:384-387 and 430-433: a failed push ends the run.
AfterPushAbort(phase, ok) ==
  IF ok THEN phase \o "_validate" ELSE "returned"

\* config.py:373-387 and 413-433: after the push, the validation when it
\* succeeded, else the return to main.
AfterPush(phase, ok) ==
  IF ok THEN phase \o "_validate" ELSE AfterPhase(phase)

\* config.py:347: POST config/update; config.py:373, 384-387 and 413,
\* 430-433: a failed push is returned as it is.
update_router_settings_post(phase) ==
  /\ pc = phase \o "_post"
  /\ \E ok, keeps \in BOOLEAN :
       /\ router' = IF ~ok THEN router
                    ELSE IF keeps THEN ConfigUpdate(router, rt.sent)
                    ELSE ConfigReplace(router, rt.sent)
       /\ rt' = [rt EXCEPT !.pushes = @ + 1,
                           !.stored = router,
                           !.result = IF ok THEN "pushed" ELSE "failed"]
       /\ pc' = AfterPush(phase, ok)
       /\ Call(PhaseNo(phase), TRUE, ok)
  /\ UNCHANGED <<args, config, gen, keygen, run, remoteCreds, remoteModels, credLocals,
                 modelLocals, todo, started, prevOk, phaseHist>>

ModelNames(all_models) == {all_models[i][1] : i \in DOMAIN all_models}

\* config.py:376-383: after a successful alias push the targets are checked
\* against the models the remote lists now.
update_aliases_validate ==
  /\ pc = "aliases_validate"
  /\ \E ok \in BOOLEAN :
       LET existing_models == ModelNames(get_all_models(ok, remoteModels)) IN
       /\ rt' = [rt EXCEPT !.existing_models = existing_models,
                           !.warnings = AliasWarnings(config.aliases, existing_models),
                           !.result = ReturnedResult(@,
                                        AliasWarnings(config.aliases, existing_models))]
       /\ Call(3, FALSE, ok)
  /\ pc' = AfterPhase("aliases")
  /\ UNCHANGED <<args, config, gen, keygen, run, remote, credLocals, modelLocals, todo,
                 started, prevOk, phaseHist>>

\* config.py:416: after a successful fallback push, the models the remote
\* lists now.
update_fallbacks_validate_models ==
  /\ pc = "fallbacks_validate"
  /\ \E ok \in BOOLEAN :
       /\ rt' = [rt EXCEPT !.existing_models =
                             ModelNames(get_all_models(ok, remoteModels))]
       /\ Call(4, FALSE, ok)
  /\ pc' = "fallbacks_validate_aliases"
  /\ UNCHANGED <<args, config, gen, keygen, run, remote, credLocals, modelLocals, todo,
                 started, prevOk, phaseHist>>

\* config.py:417-429: the aliases the remote holds now, and the check.
update_fallbacks_validate_aliases ==
  /\ pc = "fallbacks_validate_aliases"
  /\ \E ok \in BOOLEAN :
       LET current_aliases == DOMAIN get_current_aliases(ok, router) IN
       /\ rt' = [rt EXCEPT !.warnings =
                             FallbackWarnings(config.fallbacks, rt.existing_models,
                                              current_aliases),
                           !.result = ReturnedResult(@,
                                        FallbackWarnings(config.fallbacks,
                                                         rt.existing_models,
                                                         current_aliases))]
       /\ Call(4, FALSE, ok)
  /\ pc' = AfterPhase("fallbacks")
  /\ UNCHANGED <<args, config, gen, keygen, run, remote, credLocals, modelLocals, todo,
                 started, prevOk, phaseHist>>

(***************************************************************************)
(* main (config.py:595-665).                                               *)
(***************************************************************************)
\* config.py:627-649: the component names are checked, then --dry-run, then
\* the config file; the config is generate_config's result.
main ==
  /\ pc = "main"
  /\ pc' = IF Range(args.only) \ valid_components # {} THEN "returned"
           ELSE IF args.dry_run THEN "returned"
           ELSE IF ~args.config_exists THEN "returned"
           ELSE "credentials?"
  /\ UNCHANGED <<args, config, gen, keygen, run, remote, credLocals, modelLocals, todo, rt,
                 callHist, started, prevOk, phaseHist>>

\* config.py:651, 654, 657, 660: a component that --only does not name is
\* passed over.
main_skip(phase) ==
  /\ pc = phase \o "?"
  /\ phase \notin Range(args.only)
  /\ pc' = AfterPhase(phase)
  /\ Forget
  /\ rt' = NoRt
  /\ UNCHANGED <<args, config, gen, keygen, run, remote, callHist, started, prevOk>>

\* The same command is run again after a run that reached "Sync complete"
\* with every one of its remote calls succeeding.
Rerun ==
  /\ pc = "complete"
  /\ run = 1
  /\ allOk
  /\ run' = 2
  /\ pc' = "main"
  /\ prevOk' = allOk
  /\ allOk' = TRUE
  /\ wrote' = FALSE
  /\ callPhase' = 0
  /\ maxPhase' = 0
  /\ started' = <<>>
  /\ Forget
  /\ rt' = NoRt
  /\ UNCHANGED <<args, config, gen, keygen, remote>>

(***************************************************************************)
(* gen_config.py: deep_merge.                                              *)
(*                                                                         *)
(* A configuration value is a mapping, a list or a scalar; the kind is     *)
(* what isinstance(value, dict) tells apart.                               *)
(***************************************************************************)
Dict(f) == [kind |-> "dict", val |-> f]
List(s) == [kind |-> "list", val |-> s]
Scalar(x) == [kind |-> "scalar", val |-> x]
isinstance_dict(value) == value.kind = "dict"

\* result[key] = value for every key of override, whatever the two values are.
deep_merge_shallow(base, override) == Dict(Updated(base.val, override.val))

\* deep_merge(base, override): a copy of base in which every key of override
\* is set, to the merge of the two values when both are mappings and to
\* override's value otherwise.
RECURSIVE deep_merge(_, _)
deep_merge(base, override) ==
  Dict([key \in DOMAIN base.val \cup DOMAIN override.val |->
          IF key \notin DOMAIN override.val
            THEN base.val[key]
            ELSE IF /\ key \in DOMAIN base.val
                    /\ isinstance_dict(base.val[key])
                    /\ isinstance_dict(override.val[key])
                   THEN deep_merge(base.val[key], override.val[key])
                   ELSE override.val[key]])

NoGen == [fn |-> "none"]

\* One call of deep_merge returns.
deep_merge_call ==
  /\ gen.fn = "deep_merge"
  /\ ~gen.returned
  /\ gen' = [gen EXCEPT !.result = deep_merge(gen.base, gen.override),
                        !.returned = TRUE]
  /\ UNCHANGED <<args, config, keygen, pc, run, remote, credLocals, modelLocals, todo,
                 rt, callHist, started, prevOk, phaseHist>>

(***************************************************************************)
(* gen_config.py: resolve_provider_extensions.                             *)
(*                                                                         *)
(* A mapping whose iteration order matters is a sequence of entries        *)
(* [name, config] with distinct names, in insertion order; a provider's    *)
(* config is a Dict.                                                       *)
(***************************************************************************)
Null == [kind |-> "null", val |-> "null"]

\* Python's truth value of a configuration value.
truthy(value) ==
  CASE value.kind = "null" -> FALSE
    [] value.kind = "scalar" -> value.val # ""
    [] value.kind = "list" -> value.val # <<>>
    [] value.kind = "dict" -> DOMAIN value.val # {}

\* config.get(key): None when the key is absent.
dict_get(d, key) == IF key \in DOMAIN d.val THEN d.val[key] ELSE Null

Entry(name, cfg) == [name |-> name, config |-> cfg]
Names(od) == {od[i].name : i \in DOMAIN od}
Lookup(od, name) == od[CHOOSE i \in DOMAIN od : od[i].name = name].config

\* od[name] = cfg: in place when the key is there, at the end otherwise.
Put(od, name, cfg) ==
  IF name \in Names(od)
    THEN [i \in DOMAIN od |-> IF od[i].name = name THEN Entry(name, cfg) ELSE od[i]]
    ELSE Append(od, Entry(name, cfg))

\* providers.items(): the entries in insertion order.
items(od) == od

\* {k: v for k, v in config.items() if k != "$extend"}
without_extend_kept(cfg) == cfg
without_extend(cfg) ==
  Dict([k \in DOMAIN cfg.val \ {"$extend"} |-> cfg.val[k]])

\* The body of the first loop: a provider whose $extend is falsy is copied.
first_pass(resolved, e) ==
  IF ~truthy(dict_get(e.config, "$extend"))
    THEN Put(resolved, e.name, without_extend(e.config))
    ELSE resolved

\* The value stored for a provider whose parent is resolved.
extended_parent_wins(base_config, cfg) == without_extend(deep_merge(cfg, base_config))
extended(base_config, cfg) == without_extend(deep_merge(base_config, cfg))

\* The value of resolved after the second loop found base_name missing.
missing_parent_copied(resolved, e) == Put(resolved, e.name, without_extend(e.config))
missing_parent(resolved, e) == resolved

\* The body of the second loop: a provider whose $extend is truthy is merged
\* over its resolved parent, or skipped with an error when the parent is
\* not resolved.
second_pass(resolved, e) ==
  IF truthy(dict_get(e.config, "$extend"))
    THEN LET base_name == e.config.val["$extend"].val IN
           IF base_name \notin Names(resolved)
             THEN missing_parent(resolved, e)
             ELSE Put(resolved, e.name, extended(Lookup(resolved, base_name), e.config))
    ELSE resolved

second_pass_fails(resolved, e) ==
  /\ truthy(dict_get(e.config, "$extend"))
  /\ e.config.val["$extend"].val \notin Names(resolved)

RECURSIVE FirstLoop(_, _)
FirstLoop(resolved, entries) ==
  IF entries = <<>> THEN resolved
  ELSE FirstLoop(first_pass(resolved, Head(entries)), Tail(entries))

RECURSIVE SecondLoop(_, _)
SecondLoop(resolved, entries) ==
  IF entries = <<>> THEN resolved
  ELSE SecondLoop(second_pass(resolved, Head(entries)), Tail(entries))

\* resolve_provider_extensions(providers), as one value.
resolve_provider_extensions(providers) ==
  SecondLoop(FirstLoop(<<>>, items(providers)), items(providers))

\* The call of resolve_provider_extensions, one loop iteration at a time.
ExtensionsCall(providers) ==
  [fn |-> "resolve_provider_extensions", providers |-> providers,
   resolved |-> <<>>, loop |-> "first", rest |-> items(providers),
   visited |-> <<>>, errors |-> <<>>, returned |-> FALSE]

GenFrame ==
  UNCHANGED <<args, config, keygen, pc, run, remote, credLocals, modelLocals, todo,
              rt, callHist, started, prevOk, phaseHist>>

extensions_first_pass ==
  /\ gen.fn = "resolve_provider_extensions"
  /\ gen.loop = "first"
  /\ gen.rest # <<>>
  /\ gen' = [gen EXCEPT !.resolved = first_pass(@, Head(gen.rest)),
                        !.visited = Append(@, Head(gen.rest).name),
                        !.rest = Tail(@)]
  /\ GenFrame

extensions_first_done ==
  /\ gen.fn = "resolve_provider_extensions"
  /\ gen.loop = "first"
  /\ gen.rest = <<>>
  /\ gen' = [gen EXCEPT !.loop = "second", !.rest = items(gen.providers)]
  /\ GenFrame

extensions_second_pass ==
  /\ gen.fn = "resolve_provider_extensions"
  /\ gen.loop = "second"
  /\ gen.rest # <<>>
  /\ gen' = [gen EXCEPT !.resolved = second_pass(@, Head(gen.rest)),
                        !.visited = Append(@, Head(gen.rest).name),
                        !.errors = IF second_pass_fails(gen.resolved, Head(gen.rest))
                                     THEN Append(@, Head(gen.rest).name) ELSE @,
                        !.rest = Tail(@)]
  /\ GenFrame

\* A resolution that repeats the second loop as long as it resolves one more.
extensions_return_when_stable ==
  /\ gen.fn = "resolve_provider_extensions"
  /\ gen.loop = "second"
  /\ gen.rest = <<>>
  /\ IF \E i \in DOMAIN gen.providers :
          /\ truthy(dict_get(gen.providers[i].config, "$extend"))
          /\ gen.providers[i].name \notin Names(gen.resolved)
          /\ gen.providers[i].config.val["$extend"].val \in Names(gen.resolved)
       THEN gen' = [gen EXCEPT !.rest = items(gen.providers)]
       ELSE gen' = [gen EXCEPT !.loop = "done", !.returned = TRUE]
  /\ GenFrame

extensions_return ==
  /\ gen.fn = "resolve_provider_extensions"
  /\ gen.loop = "second"
  /\ gen.rest = <<>>
  /\ gen' = [gen EXCEPT !.loop = "done", !.returned = TRUE]
  /\ GenFrame

(***************************************************************************)
(* gen_config.py: resolve_fallback_base_refs.                              *)
(*                                                                         *)
(* A fallback list is a sequence of entries; an entry is a function from   *)
(* source keys to target lists.                                            *)
(***************************************************************************)
\* base_lookup: every key of every base entry, a later entry overwriting an
\* earlier one.
RECURSIVE base_lookup(_)
base_lookup(base_fallbacks) ==
  IF base_fallbacks = <<>> THEN EmptyDict
  ELSE Updated(base_lookup(SubSeq(base_fallbacks, 1, Len(base_fallbacks) - 1)),
               base_fallbacks[Len(base_fallbacks)])

\* [item for v in values for item in (base_values if v == "$base" else [v])]
splice_base_first(values, base_values) ==
  base_values \o SelectSeq(values, LAMBDA v : v # "$base")
RECURSIVE splice(_, _)
splice(values, base_values) ==
  IF values = <<>> THEN <<>>
  ELSE (IF Head(values) = "$base" THEN base_values ELSE <<Head(values)>>)
       \o splice(Tail(values), base_values)

resolve_fallback_base_refs(fallbacks, base_fallbacks) ==
  [i \in DOMAIN fallbacks |->
     [key \in DOMAIN fallbacks[i] |->
        IF "$base" \in Range(fallbacks[i][key])
          THEN splice(fallbacks[i][key], Get(base_lookup(base_fallbacks), key, <<>>))
          ELSE fallbacks[i][key]]]

BaseRefsCall(fallbacks, base_fallbacks) ==
  [fn |-> "resolve_fallback_base_refs", fallbacks |-> fallbacks,
   base_fallbacks |-> base_fallbacks, result |-> <<>>, returned |-> FALSE]

resolve_fallback_base_refs_call ==
  /\ gen.fn = "resolve_fallback_base_refs"
  /\ ~gen.returned
  /\ gen' = [gen EXCEPT
               !.result = resolve_fallback_base_refs(gen.fallbacks, gen.base_fallbacks),
               !.returned = TRUE]
  /\ GenFrame

(***************************************************************************)
(* gen_config.py: resolve_provider_models and generate_config.             *)
(*                                                                         *)
(* The order of the interfaces of a provider and of the models of an       *)
(* interface is not kept by a Dict; the loops over them take the keys in   *)
(* one fixed order.                                                        *)
(***************************************************************************)
KeyOrder == <<"openai", "gemini", "gpt", "pro">>
dict_keys(d) == SelectSeq(KeyOrder, LAMBDA k : k \in DOMAIN d.val)

\* config.get(key, default)
dict_get_or(d, key, default) == IF key \in DOMAIN d.val THEN d.val[key] ELSE default

RECURSIVE Flatten(_)
Flatten(ss) == IF ss = <<>> THEN <<>> ELSE Head(ss) \o Flatten(Tail(ss))

\* `a or b`
either(a, b) == IF truthy(a) THEN a ELSE b

\* access_groups if access_groups is not None else provider_access_groups
resolved_access_groups_provider_first(access_groups, provider_access_groups) ==
  IF provider_access_groups.kind # "null" THEN provider_access_groups ELSE access_groups
resolved_access_groups(access_groups, provider_access_groups) ==
  IF access_groups.kind # "null" THEN access_groups ELSE provider_access_groups

\* litellm_params = dict(litellm_params_cfg); litellm_params.update({...})
litellm_params_fragment_wins(litellm_params_cfg, provider, litellm_model_name, credential_name) ==
  Dict(Updated([model |-> Scalar(provider \o "/" \o litellm_model_name),
                litellm_credential_name |-> Scalar(credential_name)],
               litellm_params_cfg.val))
litellm_params(litellm_params_cfg, provider, litellm_model_name, credential_name) ==
  Dict(Updated(litellm_params_cfg.val,
               [model |-> Scalar(provider \o "/" \o litellm_model_name),
                litellm_credential_name |-> Scalar(credential_name)]))

\* The body of the innermost loop: the registration of one model.
registration(service_name, provider_access_groups, provider, litellm_model_name, model_cfg) ==
  LET is_dict == isinstance_dict(model_cfg)
      model_group_name == IF is_dict THEN dict_get(model_cfg, "model_name") ELSE Null
      model_info_cfg == IF is_dict THEN dict_get_or(model_cfg, "model_info", Dict(EmptyDict))
                        ELSE Dict(EmptyDict)
      litellm_params_cfg == IF is_dict
                              THEN dict_get_or(model_cfg, "litellm_params", Dict(EmptyDict))
                              ELSE Dict(EmptyDict)
      access_groups == IF is_dict THEN dict_get(model_cfg, "access_groups") ELSE Null
      model_name == either(model_group_name, Scalar(litellm_model_name))
      base_model == either(dict_get(model_info_cfg, "base_model"), model_name)
      groups == resolved_access_groups(access_groups, provider_access_groups)
      with_base == IF truthy(base_model)
                     THEN Updated(model_info_cfg.val, [base_model |-> base_model])
                     ELSE model_info_cfg.val
      model_info == IF truthy(groups)
                      THEN Updated(with_base, [access_groups |-> groups])
                      ELSE with_base
  IN [model_name |-> model_name,
      litellm_params |-> litellm_params(litellm_params_cfg, provider, litellm_model_name,
                                        service_name \o "-" \o provider),
      model_info |-> Dict(model_info)]

\* The loop over the models of one interface.
interface_models(service_name, provider_config, provider) ==
  LET iface_config == provider_config.val["interfaces"].val[provider]
      iface == IF truthy(iface_config) THEN iface_config ELSE Dict(EmptyDict)
      iface_models == dict_get_or(iface, "models", Dict(EmptyDict))
  IN [i \in DOMAIN dict_keys(iface_models) |->
        registration(service_name, dict_get(provider_config, "access_groups"), provider,
                     dict_keys(iface_models)[i], iface_models.val[dict_keys(iface_models)[i]])]

\* `if not api_key: continue`
skipped_never(provider_config) == FALSE
skipped(provider_config) == ~truthy(dict_get(provider_config, "api_key"))

\* The loop over the interfaces of one provider.
provider_models(e) ==
  IF skipped(e.config) THEN <<>>
  ELSE LET interfaces == dict_get_or(e.config, "interfaces", Dict(EmptyDict)) IN
         Flatten([i \in DOMAIN dict_keys(interfaces) |->
                    interface_models(e.name, e.config, dict_keys(interfaces)[i])])

resolve_provider_models(providers) ==
  Flatten([i \in DOMAIN providers |-> provider_models(items(providers)[i])])

ProviderModelsCall(providers) ==
  [fn |-> "resolve_provider_models", providers |-> providers, result |-> <<>>,
   returned |-> FALSE]

resolve_provider_models_call ==
  /\ gen.fn = "resolve_provider_models"
  /\ ~gen.returned
  /\ gen' = [gen EXCEPT !.result = resolve_provider_models(gen.providers),
                        !.returned = TRUE]
  /\ GenFrame

\* A config file is a function from its top-level keys to their values:
\* "providers" an ordered mapping of provider entries, "fallbacks" a fallback
\* list, "aliases" a function.  NoFile stands for a file that is not there.
NoFile == [absent |-> TRUE]

\* deep_merge of two provider mappings, keeping the insertion order: a key
\* of override is merged in place when base has it, appended otherwise.
RECURSIVE deep_merge_providers(_, _)
deep_merge_providers(base, override) ==
  IF override = <<>> THEN base
  ELSE LET e == Head(override)
           value == IF /\ e.name \in Names(base)
                       /\ isinstance_dict(Lookup(base, e.name))
                       /\ isinstance_dict(e.config)
                      THEN deep_merge(Lookup(base, e.name), e.config)
                      ELSE e.config
       IN deep_merge_providers(Put(base, e.name, value), Tail(override))

\* deep_merge of two config files: "providers" and "aliases" are mappings
\* and are merged, "fallbacks" is a list and is replaced.
deep_merge_config(base, override) ==
  [key \in DOMAIN base \cup DOMAIN override |->
     IF key \notin DOMAIN override THEN base[key]
     ELSE IF key \notin DOMAIN base THEN override[key]
     ELSE IF key = "providers" THEN deep_merge_providers(base[key], override[key])
     ELSE IF key = "aliases" THEN Updated(base[key], override[key])
     ELSE override[key]]

\* load_config_with_local: (config, base_config).
load_config_with_local(base_file, local_file) ==
  [config |-> IF local_file = NoFile THEN base_file
              ELSE deep_merge_config(base_file, local_file),
   base_config |-> base_file]

\* The interfaces a provider gets a credential for.
credential_interfaces_with_models(provider_config) ==
  LET interfaces == dict_get_or(provider_config, "interfaces", Dict(EmptyDict)) IN
    SelectSeq(dict_keys(interfaces),
              LAMBDA i : /\ truthy(interfaces.val[i])
                         /\ truthy(dict_get(interfaces.val[i], "models")))
credential_interfaces(provider_config) ==
  dict_keys(dict_get_or(provider_config, "interfaces", Dict(EmptyDict)))

\* The credentials loop of generate_config, for one provider.
provider_credentials(e) ==
  IF skipped(e.config) THEN <<>>
  ELSE [i \in DOMAIN credential_interfaces(e.config) |->
          [service_name |-> e.name,
           provider |-> credential_interfaces(e.config)[i],
           api_key |-> e.config.val["api_key"],
           api_base |-> dict_get_or(e.config, "api_base", Scalar(""))]]

\* The fallbacks generate_config resolves the merged list against.
base_fallbacks_of(base_config) == Get(base_config, "fallbacks", <<>>)

GenerateCall(base_file, local_file) ==
  [fn |-> "generate_config", base_file |-> base_file, local_file |-> local_file,
   config |-> EmptyDict, providers |-> <<>>, resolved |-> <<>>,
   result |-> EmptyDict, returned |-> FALSE]

generate_config ==
  /\ gen.fn = "generate_config"
  /\ ~gen.returned
  /\ LET loaded == load_config_with_local(gen.base_file, gen.local_file)
         providers == resolve_provider_extensions(Get(loaded.config, "providers", <<>>))
         credentials == Flatten([i \in DOMAIN providers |->
                                   provider_credentials(items(providers)[i])])
         models == resolve_provider_models(providers)
         fallbacks == resolve_fallback_base_refs(Get(loaded.config, "fallbacks", <<>>),
                                                 base_fallbacks_of(loaded.base_config))
     IN gen' = [gen EXCEPT
                  !.config = loaded.config,
                  !.providers = Get(loaded.config, "providers", <<>>),
                  !.resolved = providers,
                  !.result = [credentials |-> credentials, models |-> models,
                              aliases |-> Get(loaded.config, "aliases", EmptyDict),
                              fallbacks |-> fallbacks],
                  !.returned = TRUE]
  /\ GenFrame

(***************************************************************************)
(* Initial states.                                                         *)
(*                                                                         *)
(* The inputs of one phase are explored widely in the runs that select     *)
(* that phase alone; the runs that select several phases use a few         *)
(* configurations and remotes.                                             *)
(***************************************************************************)
Args(only, force, prune, dry_run, config_exists) ==
  [only |-> only, force |-> force, prune |-> prune, dry_run |-> dry_run,
   config_exists |-> config_exists]

Config(credentials, models, aliases, fallbacks) ==
  [credentials |-> credentials, models |-> models, aliases |-> aliases,
   fallbacks |-> fallbacks]

\* The router settings a remote may hold at the start: none at all, or a
\* setting the tool never updates together with any alias map (or none) and
\* any fallback list (or none).
Setting(key, present, value) == IF present THEN [k \in {key} |-> value] ELSE EmptyDict
RouterStates(aliasMaps, fallbackLists) ==
  {EmptyDict} \cup
  {Updated([routing_strategy |-> "simple-shuffle"],
           Updated(Setting("model_group_alias", hasA, a),
                   Setting("fallbacks", hasF, f))) :
     a \in aliasMaps, f \in fallbackLists, hasA \in BOOLEAN, hasF \in BOOLEAN}

\* The component lists of runs with several phases, in several orders.
SeveralPhases ==
  { <<"credentials", "models", "aliases", "fallbacks">>,
    <<"fallbacks", "aliases", "models", "credentials">>,
    <<"models", "credentials">>,
    <<"aliases", "credentials">> }

\* The component lists main rejects.
InvalidOnly == { <<"bogus">>, <<"models", "bogus">>, <<"">> }

\* The configuration and the remotes of the runs with several phases.
SmallConfig ==
  Config(<< CredEntryOrder[1], CredEntryOrder[2] >>,
         << PayloadOrder[1], PayloadOrder[3] >>,
         [best |-> "m1"],
         << Rule("m1", <<"m2", "best">>) >>)

SmallRemotes ==
  { [creds |-> {}, models |-> {}, router |-> EmptyDict],
    [creds |-> {RemoteCredOrder[1], StrayCred},
     models |-> Registrations(<<2, 0, 1>>),
     router |-> [routing_strategy |-> "simple-shuffle",
                 model_group_alias |-> [best |-> "ghost"],
                 fallbacks |-> << Rule("m1", <<"best", "m2">>) >>]] }

\* No run of create_api_key.py.
NoKeygen == [pc |-> "none"]

InitProgram ==
  /\ pc = "main"
  /\ run = 1
  /\ expected_credentials = {}
  /\ credTasks = <<>>
  /\ actor = "none"
  /\ existing_models_cache = EmptyDict
  /\ expected_models = {}
  /\ modelTasks = <<>>
  /\ counts = NoCounts
  /\ todo = <<>>
  /\ rt = NoRt
  /\ callPhase = 0
  /\ maxPhase = 0
  /\ started = <<>>
  /\ wrote = FALSE
  /\ allOk = TRUE
  /\ prevOk = TRUE
  /\ batchReads = 0
  /\ listReads = 0
  /\ fetchOk = FALSE
  /\ pruneLog = NoPrune
  /\ before = {}

InitLocals ==
  /\ keygen = NoKeygen
  /\ InitProgram

\* Runs that main ends before any phase.
InitAbort ==
  /\ \E only \in InvalidOnly \cup {<<"credentials", "models">>},
        force, prune, dry_run, config_exists \in BOOLEAN :
       /\ (only \in InvalidOnly \/ dry_run \/ ~config_exists)
       /\ args = Args(only, force, prune, dry_run, config_exists)
  /\ config = SmallConfig
  /\ remoteCreds = {}
  /\ remoteModels = {}
  /\ router = EmptyDict

InitCredentials ==
  /\ \E force, prune \in BOOLEAN :
       args = Args(<<"credentials">>, force, prune, FALSE, TRUE)
  /\ \E credentials \in CredLists :
       config = [SmallConfig EXCEPT !.credentials = credentials]
  /\ remoteCreds \in SUBSET Range(RemoteCredOrder)
  /\ remoteModels = {}
  /\ router = EmptyDict

InitModels ==
  /\ \E force, prune \in BOOLEAN :
       args = Args(<<"models">>, force, prune, FALSE, TRUE)
  /\ \E models \in PayloadLists :
       config = [SmallConfig EXCEPT !.models = models]
  /\ remoteCreds = {}
  /\ \E n \in RemoteCounts : remoteModels = Registrations(n)
  /\ router = EmptyDict

InitAliases ==
  /\ \E force \in BOOLEAN : args = Args(<<"aliases">>, force, FALSE, FALSE, TRUE)
  /\ \E aliases \in AliasMaps : config = [SmallConfig EXCEPT !.aliases = aliases]
  /\ remoteCreds = {}
  /\ remoteModels \in {{}, Registrations(<<1, 0, 0>>)}
  /\ router \in RouterStates(AliasMaps, {SmallConfig.fallbacks})

InitFallbacks ==
  /\ \E force \in BOOLEAN : args = Args(<<"fallbacks">>, force, FALSE, FALSE, TRUE)
  /\ \E fallbacks \in FallbackLists : config = [SmallConfig EXCEPT !.fallbacks = fallbacks]
  /\ remoteCreds = {}
  /\ remoteModels \in {{}, Registrations(<<1, 0, 0>>)}
  /\ router \in RouterStates({SmallConfig.aliases}, FallbackLists)

\* A configuration as generate_config gives it for a provider with the
\* interfaces openai and mistral, one model each: one credentials entry per
\* interface (gen_config.py:251-259) and one registration per model, its
\* litellm_credential_name "{service}-{interface}" (gen_config.py:173,
\* 208-213); no interface name is tested on the way.
UnknownInterfaceConfig ==
  Config(<< CredEntryOrder[1], CredEntryOrder[3] >>,
         << PayloadOrder[1], Payload("m3", "a", "mistral", "m3") >>,
         [best |-> "m1"],
         << Rule("m1", <<"m2", "best">>) >>)

InitSeveral ==
  /\ \E only \in SeveralPhases, force, prune \in BOOLEAN :
       args = Args(only, force, prune, FALSE, TRUE)
  /\ config \in {SmallConfig, UnknownInterfaceConfig}
  /\ \E r \in SmallRemotes :
       /\ remoteCreds = r.creds
       /\ remoteModels = r.models
       /\ router = r.router

Init ==
  /\ InitLocals
  /\ gen = NoGen
  /\ \/ InitAbort
     \/ InitCredentials
     \/ InitModels
     \/ InitAliases
     \/ InitFallbacks
     \/ InitSeveral

(***************************************************************************)
(* Next-state relation and specifications.                                 *)
(***************************************************************************)
Next ==
  \/ main
  \/ \E phase \in valid_components : main_skip(phase)
  \/ sync_credentials
  \/ \E i \in DOMAIN credTasks : create_credential_check(i)
  \/ \E i \in DOMAIN credTasks : create_credential_delete(i)
  \/ \E i \in DOMAIN credTasks : create_credential_post(i)
  \/ sync_credentials_gathered
  \/ sync_credentials_prune_fetch
  \/ sync_credentials_prune_step
  \/ sync_models
  \/ sync_models_fetch
  \/ \E i \in DOMAIN modelTasks : create_model_lookup(i)
  \/ \E i \in DOMAIN modelTasks : create_model_delete(i)
  \/ \E i \in DOMAIN modelTasks : create_model_post(i)
  \/ sync_models_gathered
  \/ sync_models_prune_fetch
  \/ sync_models_prune_step
  \/ \E phase \in {"aliases", "fallbacks"} : update_empty(phase)
  \/ \E phase \in {"aliases", "fallbacks"} : update_read(phase)
  \/ \E phase \in {"aliases", "fallbacks"} : update_router_settings_get(phase)
  \/ \E phase \in {"aliases", "fallbacks"} : update_router_settings_post(phase)
  \/ update_aliases_validate
  \/ update_fallbacks_validate_models
  \/ update_fallbacks_validate_aliases

Spec == Init /\ [][Next]_vars

\* The same command run twice in a row, with no other writer in between.
NextRerun == Next \/ Rerun
SpecRerun == Init /\ [][NextRerun]_vars

\* One run in which every remote call returns and the interpreter keeps
\* running the program: some step is taken as long as one is possible.  The
\* runs are those of several phases, of the router phases alone and those
\* main ends at once.
InitLive ==
  /\ InitLocals
  /\ gen = NoGen
  /\ \/ InitAbort
     \/ InitAliases
     \/ InitFallbacks
     \/ InitSeveral
SpecLive == InitLive /\ [][Next]_vars /\ WF_vars(Next)

\* The values deep_merge is called with: mappings of "provider" and "weight",
\* where "provider" may hold a mapping of "url" and "models" and either key
\* may hold a list or a scalar.
Leaves == {Scalar("x"), Scalar("y"), List(<<"x">>), List(<<"y", "x">>)}
Mappings(keys, values) ==
  {Dict(f) : f \in UNION {[S -> values] : S \in SUBSET keys}}
InnerDicts == Mappings({"url", "models"}, Leaves)
OuterDicts ==
  {d \in Mappings({"provider", "weight"}, Leaves \cup InnerDicts) :
     "weight" \in DOMAIN d.val => d.val["weight"] \in Leaves}

\* Calls of deep_merge alone, before any run of the reconciler.
InitMerge ==
  /\ InitLocals
  /\ args = Args(<<>>, FALSE, FALSE, TRUE, TRUE)
  /\ config = SmallConfig
  /\ remoteCreds = {}
  /\ remoteModels = {}
  /\ router = EmptyDict
  /\ \E base \in OuterDicts, override \in OuterDicts :
       gen = [fn |-> "deep_merge", base |-> base, override |-> override,
              result |-> Dict(EmptyDict), returned |-> FALSE]
NextMerge == deep_merge_call
SpecMerge == InitMerge /\ [][NextMerge]_vars

\* The providers resolve_provider_extensions is called with: one to three
\* of p1, p2 and p3 in any order, each with its own fields and with $extend
\* absent, null, empty, or naming one of the three or a provider that is
\* not there.
ProviderNames == {"p1", "p2", "p3"}
OwnFields(name) ==
  CASE name = "p1" -> [api_key |-> Scalar("k1"), api_base |-> Scalar("u1"),
                       interfaces |-> Dict([openai |-> Dict(EmptyDict)])]
    [] name = "p2" -> [api_base |-> Scalar("u2"),
                       interfaces |-> Dict([gemini |-> Dict(EmptyDict)])]
    [] name = "p3" -> [api_key |-> Scalar("k3"), access_groups |-> List(<<"g">>)]
Absent == [kind |-> "absent", val |-> "absent"]
ExtendValues ==
  {Absent, Null, Scalar("")} \cup {Scalar(n) : n \in ProviderNames \cup {"ghost"}}
ProviderConfig(name, x) ==
  Dict(Updated(OwnFields(name), Setting("$extend", x # Absent, x)))
NameOrders ==
  {o \in UNION {[1..n -> ProviderNames] : n \in 1..Cardinality(ProviderNames)} :
     \A i, j \in DOMAIN o : i # j => o[i] # o[j]}
ProviderMappings ==
  UNION {{[i \in DOMAIN o |-> Entry(o[i], ProviderConfig(o[i], x[o[i]]))] :
            x \in [Range(o) -> ExtendValues]} :
         o \in NameOrders}

InitIdle ==
  /\ InitLocals
  /\ args = Args(<<>>, FALSE, FALSE, TRUE, TRUE)
  /\ config = SmallConfig
  /\ remoteCreds = {}
  /\ remoteModels = {}
  /\ router = EmptyDict

InitExtensions ==
  /\ InitIdle
  /\ \E providers \in ProviderMappings : gen = ExtensionsCall(providers)


\* The fallback lists resolve_fallback_base_refs is called with.  Target
\* lists hold the token and two names, in every arrangement of length two
\* at most and some of length three; entries have key "m", key "n" or both.
TargetLists ==
  {<<>>} \cup {<<a>> : a \in {"$base", "x", "y"}}
         \cup {<<a, b>> : a, b \in {"$base", "x", "y"}}
         \cup { <<"$base", "y", "$base">>, <<"y", "$base", "x">>,
                <<"x", "$base", "$base">> }
RefEntries ==
  {Rule("m", t) : t \in TargetLists}
    \cup {Rule("n", t) : t \in {<<"z">>, <<"$base">>, <<"$base", "z">>}}
    \cup {[m |-> <<"y", "$base">>, n |-> <<"$base", "y">>]}
RefLists ==
  {<<>>} \cup {<<e>> : e \in RefEntries}
         \cup {<<e, f>> : e \in RefEntries, f \in {Rule("n", <<"$base", "z">>),
                                                   Rule("m", <<"x", "$base">>)}}
BaseLists ==
  { <<>>,
    << Rule("m", <<"x">>) >>,
    << Rule("m", <<"x", "y">>), Rule("n", <<"z">>) >>,
    << Rule("m", <<"x">>), Rule("m", <<"y", "x">>) >>,
    << Rule("m", <<"$base", "x">>) >> }

InitBaseRefs ==
  /\ InitIdle
  /\ \E fallbacks \in RefLists, base_fallbacks \in BaseLists :
       gen = BaseRefsCall(fallbacks, base_fallbacks)


\* The providers resolve_provider_models is called with.  p1 has any of the
\* api keys, provider-level access groups and interface mappings below; p2,
\* when there, stands before or after p1 and has one model or no api key.
ModelCfgs ==
  { Null,
    Dict(EmptyDict),
    Dict([model_name |-> Scalar("alias")]),
    Dict([model_info |-> Dict([base_model |-> Scalar("b")])]),
    Dict([model_name |-> Scalar("alias"), model_info |-> Dict([mode |-> Scalar("chat")])]),
    Dict([litellm_params |-> Dict([model |-> Scalar("other"),
                                   litellm_credential_name |-> Scalar("other"),
                                   rpm |-> Scalar("1")])]),
    Dict([access_groups |-> List(<<"a">>)]),
    Dict([access_groups |-> List(<<>>)]),
    Dict([access_groups |-> Null]),
    Dict([model_info |-> Dict([access_groups |-> List(<<"i">>)])]),
    Dict([access_groups |-> List(<<"a">>),
          model_info |-> Dict([access_groups |-> List(<<"i">>)])]) }
Models(f) == Dict([models |-> Dict(f)])
InterfaceMappings ==
  { Absent, Dict(EmptyDict), Dict([openai |-> Null]), Dict([openai |-> Dict(EmptyDict)]) }
    \cup {Dict([openai |-> Models([gpt |-> c])]) : c \in ModelCfgs}
    \cup {Dict([openai |-> Models([gpt |-> c, pro |-> d]),
                gemini |-> Models([gpt |-> d])]) :
            c \in ModelCfgs, d \in {Null, Dict([access_groups |-> List(<<"a">>)])}}
ApiKeys == {Absent, Null, Scalar(""), Scalar("k")}
AccessGroups == {Absent, List(<<>>), List(<<"g">>)}
Provider(api_key, access_groups, interfaces) ==
  Dict(Updated(Setting("api_key", api_key # Absent, api_key),
       Updated(Setting("access_groups", access_groups # Absent, access_groups),
               Setting("interfaces", interfaces # Absent, interfaces))))
OtherProviders ==
  { Provider(Scalar("k2"), Absent, Dict([openai |-> Models([gpt |-> Null])])),
    Provider(Absent, List(<<"g">>), Dict([gemini |-> Models([pro |-> Null])])) }
ResolvedProviders ==
  UNION {{<<Entry("p1", p)>>} \cup
         {<<Entry("p1", p), Entry("p2", q)>> : q \in OtherProviders} \cup
         {<<Entry("p2", q), Entry("p1", p)>> : q \in OtherProviders} :
           p \in {Provider(k, g, f) : k \in ApiKeys, g \in AccessGroups,
                                      f \in InterfaceMappings}}

InitProviderModels ==
  /\ InitIdle
  /\ \E providers \in ResolvedProviders : gen = ProviderModelsCall(providers)


\* The files generate_config is called with: a base file with one of the
\* provider mappings below (or none) and one of the base fallback lists,
\* and no local file or a local file that overrides providers, fallbacks
\* or both.
BaseProviders ==
  { << Entry("p1", Dict([api_key |-> Scalar("k1"), api_base |-> Scalar("u1"),
                         interfaces |-> Dict([openai |-> Models([gpt |-> Null]),
                                              gemini |-> Dict(EmptyDict)])])),
       Entry("p2", Dict(Updated([api_base |-> Scalar("u2")],
                                Setting("$extend", TRUE, Scalar("p1"))))) >>,
    << Entry("p2", Dict(Updated([interfaces |-> Dict([gemini |-> Models([pro |-> Null])])],
                                Setting("$extend", TRUE, Scalar("p1"))))),
       Entry("p1", Dict([api_key |-> Scalar(""),
                         interfaces |-> Dict([openai |-> Models([gpt |-> Null])])])) >>,
    << Entry("p1", Dict([interfaces |-> Dict([openai |-> Models([gpt |-> Null])])])),
       Entry("p3", Dict([api_key |-> Scalar("k3")])) >>,
    << Entry("p1", Dict([api_key |-> Null,
                         interfaces |-> Dict([openai |-> Models([gpt |-> Null])])])),
       Entry("p2", Dict(Updated([api_key |-> Scalar("k2"),
                                 interfaces |-> Dict([openai |-> Models([gpt |-> Null])])],
                                Setting("$extend", TRUE, Scalar("ghost"))))) >> }
LocalProviders ==
  { << Entry("p2", Dict(Setting("$extend", TRUE, Null))) >>,
    << Entry("p1", Dict([api_key |-> Null])) >>,
    << Entry("p2", Dict([api_key |-> Scalar("k9"), interfaces |-> Dict([openai |-> Null])])) >>,
    << Entry("p3", Dict([api_key |-> Scalar("k3"),
                         interfaces |-> Dict([gemini |-> Models(
                            [pro |-> Dict([model_name |-> Scalar("alias")])])])])) >> }
LocalFallbacks ==
  { << Rule("m", <<"$base", "y">>) >>,
    << Rule("m", <<"y">>), Rule("n", <<"$base", "$base">>) >>,
    <<>> }
File(hasP, providers, hasF, fallbacks) ==
  Updated(Setting("providers", hasP, providers),
          Updated(Setting("fallbacks", hasF, fallbacks), [aliases |-> [best |-> "gpt"]]))
BaseFiles ==
  {File(hasP, providers, TRUE, fallbacks) :
     hasP \in BOOLEAN, providers \in BaseProviders, fallbacks \in BaseLists}
LocalFiles ==
  {NoFile} \cup
  {File(hasP, providers, hasF, fallbacks) :
     hasP \in BOOLEAN, providers \in LocalProviders,
     hasF \in BOOLEAN, fallbacks \in LocalFallbacks}

InitGenerate ==
  /\ InitIdle
  /\ \E base_file \in BaseFiles, local_file \in LocalFiles :
       gen = GenerateCall(base_file, local_file)

\* Calls of the functions of gen_config.py, before any run of the reconciler.
InitGen ==
  \/ InitExtensions
  \/ InitBaseRefs
  \/ InitProviderModels
  \/ InitGenerate

NextExtensions ==
  \/ extensions_first_pass
  \/ extensions_first_done
  \/ extensions_second_pass
  \/ extensions_return

NextGen ==
  \/ NextExtensions
  \/ resolve_fallback_base_refs_call
  \/ resolve_provider_models_call
  \/ generate_config
SpecGen == InitGen /\ [][NextGen]_vars

\* The calls of resolve_provider_extensions when the interpreter keeps
\* running: a call takes its next step as long as it has one.
SpecExtensionsLive ==
  InitExtensions /\ [][NextExtensions]_vars /\ WF_vars(NextExtensions)

(***************************************************************************)
(* create_api_key.py: a user is looked up or created, then a key is made. *)
(***************************************************************************)
\* An email address is the sequence of its characters.
Ann == <<"a", "n", "n", "@", "x">>
Joann == <<"j", "o">> \o Ann
AnnOrg == Ann \o <<".", "o">>
Bob == <<"b", "o", "b", "@", "x">>
Emails == {Ann, Joann, AnnOrg, Bob}

\* The users a remote may hold: [user_id, user_email]; two of them share an
\* address.
UserOrder ==
  << [user_id |-> "u1", user_email |-> Joann],
     [user_id |-> "u2", user_email |-> Ann],
     [user_id |-> "u3", user_email |-> AnnOrg],
     [user_id |-> "u4", user_email |-> Ann],
     [user_id |-> "u5", user_email |-> Bob] >>

\* create_api_key.py:22: page=1&page_size=100.
page_size == 100

\* The remote's user_email filter of GET user/list: a partial match, the
\* address holds the text asked for.
IsSubstring(q, e) ==
  \E i \in 0..(Len(e) - Len(q)) : SubSeq(e, i + 1, i + Len(q)) = q

\* GET user/list?user_email=...&page=1&page_size=100 on the remote: the
\* first page of the users whose address matches, in the remote's order.
user_list(email, users) ==
  LET matching == SelectSeq(UserOrder,
                            LAMBDA u : u \in users /\ IsSubstring(email, u.user_email))
  IN SubSeq(matching, 1, Min2(Len(matching), page_size))

NoUser == [user_id |-> "none", user_email |-> <<>>]

\* A slip in create_api_key.py:30-32: the first user of the list is taken,
\* the remote's filter being trusted.
first_listed(email, users) == IF users = <<>> THEN NoUser ELSE Head(users)

\* create_api_key.py:30-33: the first user of the list whose user_email is
\* the email, None when there is none.
first_exact(email, users) ==
  LET exact == SelectSeq(users, LAMBDA u : u.user_email = email)
  IN IF exact = <<>> THEN NoUser ELSE Head(exact)

\* create_api_key.py:19-43: get_user_by_email; ok is whether the GET
\* returned a list (a 404, another HTTP error and any other exception all
\* give None).
get_user_by_email(email, ok, listed) ==
  IF ok THEN first_exact(email, listed) ELSE NoUser

\* create_api_key.py:111: key_alias = args.alias or email.split("@")[0].
email_prefix(email) ==
  IF \E i \in DOMAIN email : email[i] = "@"
  THEN SubSeq(email, 1, (CHOOSE i \in DOMAIN email :
                           email[i] = "@" /\ \A j \in 1..(i - 1) : email[j] # "@") - 1)
  ELSE email
key_alias(alias, email) == IF alias # <<>> THEN alias ELSE email_prefix(email)

\* main, create_api_key.py:104-112: the command line is parsed.
KeygenCall(email, alias, users) ==
  [pc |-> "get_user_by_email", email |-> email, key_alias |-> key_alias(alias, email),
   users |-> users, user |-> NoUser, user_id |-> "none", exit |-> "none",
   \* History: the list the lookup was given, the user/new and key/generate
   \* calls issued, and the user_id the key was asked for.
   listed |-> <<>>, user_new |-> 0, key_generate |-> 0, key_user_id |-> "none"]

KeygenFrame ==
  UNCHANGED <<args, config, gen, pc, run, remote, credLocals, modelLocals, todo,
              rt, callHist, started, prevOk, phaseHist>>

\* create_api_key.py:119-126: `if user:` -- a user that was found is used,
\* else one is created.
after_lookup(user) ==
  IF user # NoUser THEN "create_api_key" ELSE "create_user"

\* main, create_api_key.py:116-121: the lookup and, for a user that was
\* found, its user_id.
keygen_lookup ==
  /\ keygen.pc = "get_user_by_email"
  /\ \E ok \in BOOLEAN :
       LET listed == IF ok THEN user_list(keygen.email, keygen.users) ELSE <<>>
           user == get_user_by_email(keygen.email, ok, listed)
       IN keygen' = [keygen EXCEPT !.listed = listed,
                                   !.user = user,
                                   !.user_id = IF user # NoUser THEN user.user_id ELSE @,
                                   !.pc = after_lookup(user)]
  /\ KeygenFrame

\* main, create_api_key.py:122-126, and create_user, 46-71: POST user/new;
\* an HTTP error ends the process with sys.exit(1), any other exception is
\* not caught and ends it with a traceback.
keygen_create_user ==
  /\ keygen.pc = "create_user"
  /\ \E outcome \in {"ok", "http_error", "exception"} :
       keygen' = [keygen EXCEPT
                    !.user_new = @ + 1,
                    !.users = IF outcome = "ok"
                              THEN @ \cup {[user_id |-> "new", user_email |-> keygen.email]}
                              ELSE @,
                    !.user_id = IF outcome = "ok" THEN "new" ELSE @,
                    !.exit = IF outcome = "ok" THEN @ ELSE outcome,
                    !.pc = IF outcome = "ok" THEN "create_api_key" ELSE "exited"]
  /\ KeygenFrame

\* main, create_api_key.py:128-134, and create_api_key, 74-98: POST
\* key/generate for the user_id; the key is printed, or the process ends as
\* in create_user.
keygen_create_api_key ==
  /\ keygen.pc = "create_api_key"
  /\ \E outcome \in {"ok", "http_error", "exception"} :
       keygen' = [keygen EXCEPT
                    !.key_generate = @ + 1,
                    !.key_user_id = keygen.user_id,
                    !.exit = IF outcome = "ok" THEN "printed" ELSE outcome,
                    !.pc = "exited"]
  /\ KeygenFrame

\* The runs of create_api_key.py: any of the addresses, with or without
\* --alias, over a remote that holds any of the users.
InitKeygen ==
  /\ InitProgram
  /\ gen = NoGen
  /\ args = Args(<<>>, FALSE, FALSE, TRUE, TRUE)
  /\ config = SmallConfig
  /\ remoteCreds = {}
  /\ remoteModels = {}
  /\ router = EmptyDict
  /\ \E email \in Emails, alias \in {<<>>, <<"k">>}, users \in SUBSET Range(UserOrder) :
       keygen = KeygenCall(email, alias, users)

NextKeygen ==
  \/ keygen_lookup
  \/ keygen_create_user
  \/ keygen_create_api_key
SpecKeygen == InitKeygen /\ [][NextKeygen]_vars

(***************************************************************************)
(* Properties.                                                             *)
(***************************************************************************)
Last(s) == s[Len(s)]
\* The phase entered last.
LastStarted(phase) == started # <<>> /\ Last(started) = phase
\* The function of the phase is running or has just returned: its locals
\* are those of the state.
InPhase(phase) ==
  /\ LastStarted(phase)
  /\ pc \in {phase \o suffix :
              suffix \in {"_fetch", "_batch", "_prune", "_prune_loop", "_settings",
                          "_post", "_validate", "_validate_aliases"}}
            \cup {AfterPhase(phase)}
\* The function of the phase has returned and main has not moved on.
Returned(phase) == InPhase(phase) /\ pc = AfterPhase(phase)
Occurrences(s, x) == Cardinality({i \in DOMAIN s : s[i] = x})

\* C3: a forced replace of a model whose key has n >= 1 ids in the cache
\* issues a delete for each of the n ids, in the order of the cache and all
\* of them before the create, then exactly one create, and returns the
\* action "replaced" with duplicates_deleted = n - 1.
C3_ForcedReplace ==
  \A i \in DOMAIN modelTasks :
    LET t == modelTasks[i]
        ids == CacheGet(existing_models_cache, KeyOf(t.payload))
    IN (args.force /\ ids # <<>>) =>
         /\ t.posts <= 1
         /\ t.posts = 1 => t.deletes = ids
         /\ t.pc = "done" =>
              /\ t.deletes = ids
              /\ t.posts = 1
              /\ t.action = "replaced"
              /\ t.duplicates_deleted = Len(ids) - 1

\* A forced replace of a key with MaxDup ids has returned.
C3_Witness ==
  \E i \in DOMAIN modelTasks :
    /\ args.force
    /\ modelTasks[i].pc = "done"
    /\ Len(modelTasks[i].deletes) = MaxDup
    /\ modelTasks[i].duplicates_deleted = MaxDup - 1
    /\ modelTasks[i].posts = 1

\* C4 as stated: the decision follows what the remote holds when the task
\* checks: held and force, one delete before one create and "replaced";
\* held and no force, no call and "skipped"; not held, one create, no
\* delete and "created".
C4_DecisionByRemote ==
  \A i \in DOMAIN credTasks :
    LET t == credTasks[i] IN
    t.pc = "done" =>
      /\ (t.had /\ args.force) =>
           t.deletes = 1 /\ t.posts = 1 /\ t.action = "replaced"
      /\ (t.had /\ ~args.force) =>
           t.deletes = 0 /\ t.posts = 0 /\ t.action = "skipped"
      /\ ~t.had => t.deletes = 0 /\ t.posts = 1 /\ t.action = "created"

\* C4, amended: the decision follows what the existence check reports, and
\* the check reports a name only if the remote holds it (a failed check
\* reports absence).  Reported and force: one delete, issued before the one
\* create, and "replaced"; reported and no force: no delete, no create and
\* "skipped"; not reported: one create, no delete and "created".
C4_DecisionByCheck ==
  \A i \in DOMAIN credTasks :
    LET t == credTasks[i] IN
    /\ t.exists => t.had
    /\ t.posts <= 1 /\ t.deletes <= 1
    /\ (t.posts = 1 /\ t.exists) => t.deletes = 1
    /\ t.pc = "done" =>
         /\ (t.exists /\ args.force) =>
              t.deletes = 1 /\ t.posts = 1 /\ t.action = "replaced"
         /\ (t.exists /\ ~args.force) =>
              t.deletes = 0 /\ t.posts = 0 /\ t.action = "skipped"
         /\ ~t.exists => t.deletes = 0 /\ t.posts = 1 /\ t.action = "created"

\* One batch in which a credential was replaced and another created.
C4_Witness ==
  \E i, j \in DOMAIN credTasks :
    /\ credTasks[i].pc = "done" /\ credTasks[i].action = "replaced"
    /\ credTasks[i].exists /\ credTasks[i].deletes = 1
    /\ credTasks[j].pc = "done" /\ credTasks[j].action = "created"
    /\ ~credTasks[j].had

\* C5: with --prune, the prune step of sync_credentials issues a delete for
\* every name the remote reported after the batch that is not expected, and
\* for no expected name; without --prune it reads nothing and deletes
\* nothing.
C5_CredentialPrune ==
  InPhase("credentials") =>
    /\ \A n \in Range(pruneLog.deletes) : n \notin expected_credentials
    /\ ~args.prune => pruneLog = NoPrune
    /\ (args.prune /\ pruneLog.fetched) => gather(credTasks)
    /\ (args.prune /\ Returned("credentials")) =>
         /\ pruneLog.fetched
         /\ pruneLog.deletes =
              SelectSeq(pruneLog.reported, LAMBDA n : n \notin expected_credentials)

\* A prune step that deleted an unexpected name and kept an expected one.
C5_Witness ==
  /\ Returned("credentials")
  /\ args.prune
  /\ pruneLog.deletes = <<StrayCred>>
  /\ \E n \in Range(pruneLog.reported) : n \in expected_credentials

AllDone(tasks) == \A i \in DOMAIN tasks : tasks[i].pc = "done"
BatchPcs == {"credentials_batch", "models_batch"}
PrunePcs == {"credentials_prune", "credentials_prune_loop",
             "models_prune", "models_prune_loop"}

\* C6: the selected phases run in the order credentials, models, aliases,
\* fallbacks whatever the order of --only: the phases entered are in that
\* order, a completed run has entered exactly the selected ones, every
\* remote call is a call of the phase entered last, and when a phase is
\* entered or passed over every task of the phase before has returned and
\* its prune loop is over.
C6_PhaseOrder ==
  /\ \A i, j \in DOMAIN started : i < j => PhaseNo(started[i]) < PhaseNo(started[j])
  /\ callPhase = maxPhase
  /\ callPhase # 0 => LastStarted(CHOOSE p \in valid_components : PhaseNo(p) = callPhase)
  /\ pc = "complete" => Range(started) = Range(args.only)
  /\ pc \in {"models?", "aliases?", "fallbacks?", "complete"} =>
       /\ AllDone(credTasks)
       /\ AllDone(modelTasks)
       /\ todo = <<>>

\* A run given the names in the reverse order has completed all four phases,
\* the last remote call being one of the fallbacks phase.
C6_Witness ==
  /\ pc = "complete"
  /\ args.only = <<"fallbacks", "aliases", "models", "credentials">>
  /\ started = <<"credentials", "models", "aliases", "fallbacks">>
  /\ callPhase = 4

\* C7: in the credentials phase and in the models phase, the prune step (its
\* read of the remote list and each of its deletes) happens only after every
\* task of the batch has returned.
C7_BatchBarrier ==
  (pc \in PrunePcs \/ pruneLog.fetched) =>
     /\ AllDone(credTasks)
     /\ AllDone(modelTasks)

\* A prune delete was issued after a batch of MaxPayloads model tasks.
C7_Witness ==
  /\ pc = "models_prune_loop"
  /\ Len(modelTasks) = MaxPayloads
  /\ pruneLog.deletes # <<>>

\* C8: a task that failed leaves its siblings alone: while the batch runs,
\* the next step of every task that has not returned is enabled whatever the
\* results of the others, and when the batch is over every task has returned
\* with its own result, a skip without a call or the result of its own one
\* create call; sync_models counts one result for each task that called.
C8_NoSiblingCancellation ==
  /\ pc = "credentials_batch" =>
       \A i \in DOMAIN credTasks :
         credTasks[i].pc # "done" =>
           ENABLED (\/ create_credential_check(i)
                    \/ create_credential_delete(i)
                    \/ create_credential_post(i))
  /\ pc = "models_batch" =>
       \A i \in DOMAIN modelTasks :
         modelTasks[i].pc # "done" =>
           ENABLED (\/ create_model_lookup(i)
                    \/ create_model_delete(i)
                    \/ create_model_post(i))
  /\ (InPhase("credentials") /\ pc # "credentials_batch") =>
       \A i \in DOMAIN credTasks :
         LET t == credTasks[i] IN
         /\ t.pc = "done"
         /\ \/ t.action = "skipped" /\ t.posts = 0 /\ t.success
            \/ t.action \in {"created", "replaced"} /\ t.posts = 1
  /\ (InPhase("models") /\ pc \notin {"models_fetch", "models_batch"}) =>
       /\ \A i \in DOMAIN modelTasks :
            LET t == modelTasks[i] IN
            /\ t.pc = "done"
            /\ \/ t.action = "none" /\ t.posts = 0 /\ t.success
               \/ t.action \in {"created", "replaced"} /\ t.posts = 1
       /\ pruneLog.deletes = <<>> =>
            counts.created + counts.replaced + counts.failed =
              Cardinality({i \in DOMAIN modelTasks : modelTasks[i].posts = 1})

\* In one batch the create call of one model task failed and the create call
\* of a sibling succeeded: its registration is on the remote.
C8_Witness ==
  \E i, j \in DOMAIN modelTasks :
    /\ modelTasks[i].pc = "done" /\ modelTasks[i].posts = 1 /\ ~modelTasks[i].success
    /\ modelTasks[j].pc = "done" /\ modelTasks[j].posts = 1 /\ modelTasks[j].success
    /\ callPhase = 2 /\ allOk = FALSE
    /\ \E r \in remoteModels : r.id = NewId(run, j)
    /\ pc = "models_batch"

\* C10: for a non-empty desired alias map, update_aliases returns without a
\* push if and only if force is false and the alias map it read at the start
\* equals the desired map; otherwise it issues exactly one push.  The map it
\* read is the remote's when the read succeeded.
C10_AliasSkipIfEqual ==
  (InPhase("aliases") /\ ~Falsy(config.aliases)) =>
     /\ rt.pushes <= 1
     /\ rt.pushes = 1 => ~(~args.force /\ rt.current = config.aliases)
     /\ Returned("aliases") =>
          /\ rt.pushes = 0 <=> (~args.force /\ rt.current = config.aliases)
          /\ rt.pushes = 0 => rt.result = "skipped"
          /\ (rt.pushes = 0 /\ allOk) =>
               Get(router, "model_group_alias", EmptyDict) = config.aliases

\* The remote already held the desired map and force made update_aliases
\* push it once all the same.
C10_Witness ==
  /\ Returned("aliases")
  /\ args.force
  /\ rt.current = config.aliases
  /\ ~Falsy(config.aliases)
  /\ rt.pushes = 1

RegKey(r) == <<r.model_name, r.credential_name>>
\* The registrations among R whose key sync_models does not expect.
Unexpected(R) == {r \in R : RegKey(r) \notin expected_models}

\* C2 as stated: when sync_models has returned, with --prune it has issued
\* exactly one delete for each registration the remote held under a key that
\* is not expected, and its prune step none for a registration of an
\* expected key; without --prune the registrations under the keys that are
\* not expected are those the remote held at the start.
C2_PruneEveryRegistration ==
  /\ (Returned("models") /\ args.prune) =>
       /\ \A r \in Unexpected(before) : Occurrences(pruneLog.deletes, r.id) = 1
       /\ \A r \in before \cup pruneLog.held :
            RegKey(r) \in expected_models => r.id \notin Range(pruneLog.deletes)
  /\ (InPhase("models") /\ pc # "models_fetch" /\ ~args.prune) =>
       Unexpected(remoteModels) = Unexpected(before)

\* C2, amended: the same when the prune step's read of the remote list
\* succeeds; when that read fails the prune step issues no delete.  The
\* batch leaves the registrations under the keys that are not expected
\* alone, so those the prune step finds are those of the start.
C2_PruneReportedRegistrations ==
  /\ (InPhase("models") /\ pruneLog.fetched) =>
       /\ Unexpected(pruneLog.held) = Unexpected(before)
       /\ ~pruneLog.ok => pruneLog.deletes = <<>>
       /\ \A id \in Range(pruneLog.deletes) :
            /\ Occurrences(pruneLog.deletes, id) = 1
            /\ \E r \in Unexpected(before) : r.id = id
  /\ (Returned("models") /\ args.prune /\ pruneLog.ok) =>
       /\ \A r \in Unexpected(before) : Occurrences(pruneLog.deletes, r.id) = 1
       /\ \A r \in before \cup pruneLog.held :
            RegKey(r) \in expected_models => r.id \notin Range(pruneLog.deletes)
  /\ (InPhase("models") /\ pc # "models_fetch" /\ ~args.prune) =>
       /\ Unexpected(remoteModels) = Unexpected(before)
       /\ pruneLog = NoPrune

\* The prune step deleted the duplicate registrations of a key that is not
\* expected and left a registration of an expected key on the remote.
C2_Witness ==
  /\ Returned("models")
  /\ args.prune
  /\ Len(pruneLog.deletes) = MaxDup - 1
  /\ \E k \in DOMAIN RemoteKeyOrder :
       /\ RemoteKeyOrder[k] \notin expected_models
       /\ {r.id : r \in {x \in before : RegKey(x) = RemoteKeyOrder[k]}} =
            Range(pruneLog.deletes)
  /\ \E r \in before \cap remoteModels : RegKey(r) \in expected_models

\* C9 as stated: in the credentials phase and in the models phase the remote
\* list is read once before the batch and not again while the batch runs;
\* each task decides on that one read, and on the remote the name or key a
\* task decides about is held as it was when the phase began.
C9_SnapshotOnce ==
  /\ pc \in BatchPcs => (listReads = 1 /\ batchReads = 0)
  /\ pc = "credentials_batch" =>
       \A i \in DOMAIN credTasks :
         credTasks[i].pc # "pending" =>
           credTasks[i].had = (NameOf(credTasks[i].cred) \in before)
  /\ pc = "models_batch" =>
       \A i \in DOMAIN modelTasks :
         modelTasks[i].pc # "pending" =>
           modelTasks[i].model_ids =
             CacheGet(existing_models_cache, KeyOf(modelTasks[i].payload))

\* A run so far: run 2 follows a run 1 whose every call succeeded.
SecondRun == run = 2 /\ ~args.force /\ prevOk
NoChange ==
  /\ ~wrote
  /\ \A i \in DOMAIN credTasks :
       credTasks[i].pc # "pending" =>
         credTasks[i].pc = "done" /\ credTasks[i].action = "skipped"
  /\ \A i \in DOMAIN modelTasks :
       modelTasks[i].pc # "pending" =>
         /\ modelTasks[i].pc = "done" /\ modelTasks[i].success
         /\ modelTasks[i].posts = 0 /\ modelTasks[i].deletes = <<>>
  /\ pruneLog.deletes = <<>>
  /\ rt.pushes = 0
  /\ rt.result \in {"none", "skipped", "nothing to update"}

\* C1 as stated: the second of two runs with force false, the same flags and
\* config, after a first run whose every remote call succeeded, issues no
\* create, replace or delete call: every credential and every model is
\* skipped and so are the alias and the fallback update.
C1_SecondRunChangesNothing == SecondRun => NoChange

\* C1, amended: the same as long as every remote read of the second run
\* succeeds too.
C1_SecondRunReadsOk == (SecondRun /\ allOk) => NoChange

\* A second run over all four phases has completed without a change, after
\* a first run that did create, replace or delete.
C1_Witness ==
  /\ SecondRun
  /\ allOk
  /\ pc = "complete"
  /\ started = <<"credentials", "models", "aliases", "fallbacks">>
  /\ callPhase = 4
  /\ rt.result = "skipped"
  /\ remoteCreds # {} /\ remoteModels # {}

\* The keys of the router settings other than the one a push updates.
OtherKeys(settings) == DOMAIN settings \ {rt.key}
Pushing == pc \in {"aliases_post", "fallbacks_post"}
Pushed == (InPhase("aliases") \/ InPhase("fallbacks")) /\ rt.pushes = 1

\* C11 as stated: every push sends a router_settings object that holds every
\* key of the remote's current router settings with its value, but for the
\* key being updated; and after a push the remote holds every other setting
\* (the fallbacks after an alias push, the aliases after a fallback push) as
\* it did before.
C11_SendsEveryRemoteKey ==
  /\ Pushing =>
       \A k \in OtherKeys(router) : k \in DOMAIN rt.sent /\ rt.sent[k] = router[k]
  /\ (Pushed /\ rt.result = "pushed") =>
       \A k \in OtherKeys(rt.stored) : k \in DOMAIN router /\ router[k] = rt.stored[k]

\* C11, amended: the same for every push whose read of the router settings
\* succeeded; in every case the object sent holds every key of the settings
\* that were read (none when the read failed) with its value, but for the
\* key being updated, which holds the desired value.
C11_SendsEveryKeyRead ==
  /\ (Pushing \/ Pushed) =>
       /\ \A k \in OtherKeys(rt.settings) :
            k \in DOMAIN rt.sent /\ rt.sent[k] = rt.settings[k]
       /\ DOMAIN rt.sent = DOMAIN rt.settings \cup {rt.key}
       /\ ~rt.read_ok => rt.settings = EmptyDict
  /\ (Pushing /\ rt.read_ok) =>
       /\ rt.settings = router
       /\ \A k \in OtherKeys(router) : k \in DOMAIN rt.sent /\ rt.sent[k] = router[k]
  /\ (Pushed /\ rt.result = "pushed" /\ rt.read_ok) =>
       /\ OtherKeys(router) = OtherKeys(rt.stored)
       /\ \A k \in OtherKeys(rt.stored) : router[k] = rt.stored[k]

\* An alias push went through on a remote that held fallbacks and a routing
\* strategy, and holds them still.
C11_Witness ==
  /\ InPhase("aliases")
  /\ rt.pushes = 1 /\ rt.result = "pushed" /\ rt.read_ok
  /\ rt.stored # router
  /\ {"fallbacks", "routing_strategy"} \subseteq DOMAIN router
  /\ router.fallbacks = rt.stored.fallbacks

ValidatePcs == {"aliases_validate", "fallbacks_validate", "fallbacks_validate_aliases"}
\* The names a fallback list mentions: every source and every target.
FallbackNames(fallbacks) ==
  UNION {UNION {{source} \cup Range(fallbacks[i][source]) : source \in DOMAIN fallbacks[i]} :
           i \in DOMAIN fallbacks}

\* C12: validation comes after the push and changes nothing: it runs only
\* after a push that succeeded; when it has warned about unresolved names
\* the function still returns the success of the push, and the remote still
\* holds the value pushed.  The alias warnings are the aliases whose target
\* is neither a model the remote listed nor an alias of the desired map; the
\* fallback warnings are among the sources and targets of the rules.
C12_ValidationNeverBlocks ==
  /\ pc \in ValidatePcs => (rt.pushes = 1 /\ rt.result = "pushed")
  /\ rt.warnings # {} =>
       /\ rt.pushes = 1
       /\ rt.result = "pushed"
  /\ (Returned("aliases") /\ rt.result = "pushed") =>
       /\ rt.warnings =
            {a \in DOMAIN config.aliases :
               config.aliases[a] \notin rt.existing_models \cup DOMAIN config.aliases}
       /\ router["model_group_alias"] = config.aliases
  /\ (Returned("fallbacks") /\ rt.result = "pushed") =>
       /\ rt.warnings \subseteq FallbackNames(config.fallbacks) \ rt.existing_models
       /\ router["fallbacks"] = config.fallbacks

\* update_aliases returned the success of a push that aliased a name to a
\* model the remote does not have.
C12_Witness ==
  /\ Returned("aliases")
  /\ rt.result = "pushed"
  /\ "best" \in rt.warnings
  /\ config.aliases["best"] = "ghost"
  /\ router["model_group_alias"] = config.aliases

\* Two fallback lists are equal as Python compares them: the same number of
\* rules and, rule by rule in order, the same sources with the same targets
\* in the same order.
SameOrdered(a, b) ==
  /\ Len(a) = Len(b)
  /\ \A i \in 1..Len(a) :
       /\ DOMAIN a[i] = DOMAIN b[i]
       /\ \A source \in DOMAIN a[i] :
            /\ Len(a[i][source]) = Len(b[i][source])
            /\ \A j \in 1..Len(a[i][source]) : a[i][source][j] = b[i][source][j]
\* The rules of a list with the order of the rules and of the targets
\* forgotten.
Unordered(fallbacks) ==
  {[source \in DOMAIN fallbacks[i] |-> Range(fallbacks[i][source])] :
     i \in DOMAIN fallbacks}

\* C13: without force, update_fallbacks returns without a push exactly when
\* the fallback list it read equals the desired one rule by rule and target
\* by target in order; a list with the same rules in another order, or a
\* rule with its targets in another order, is pushed.
C13_FallbackOrderedEquality ==
  (Returned("fallbacks") /\ ~Falsy(config.fallbacks) /\ ~args.force) =>
     /\ rt.pushes = 0 <=> SameOrdered(rt.current, config.fallbacks)
     /\ rt.pushes = 0 =>
          /\ rt.result = "skipped"
          /\ "fallbacks" \in DOMAIN router
          /\ SameOrdered(router["fallbacks"], config.fallbacks)
     /\ ~SameOrdered(rt.current, config.fallbacks) =>
          (rt.pushes = 1 /\ rt.sent["fallbacks"] = config.fallbacks)

\* Without force, a desired list that differs from the remote's only in the
\* order of its rules was pushed.
C13_Witness ==
  /\ Returned("fallbacks")
  /\ ~args.force
  /\ Len(config.fallbacks) = 2
  /\ rt.current # config.fallbacks
  /\ Unordered(rt.current) = Unordered(config.fallbacks)
  /\ rt.pushes = 1
  /\ rt.result = "pushed"

\* C14: a failed fetch is taken as an empty remote and the run goes on.
\* Without force, a credential task whose read of the credential list failed
\* finds nothing, issues no delete and one create, and its action is
\* "created"; when the read of the model list before the batch failed the
\* cache is empty and every model task does the same; and each such task's
\* create is enabled: nothing was aborted.
C14_FetchFailureDegradesToEmpty ==
  ~args.force =>
    /\ InPhase("credentials") =>
         \A i \in DOMAIN credTasks :
           LET t == credTasks[i] IN
           (t.pc # "pending" /\ ~t.check_ok) =>
              /\ ~t.exists
              /\ t.action = "created"
              /\ t.deletes = 0
              /\ t.pc \in {"post", "done"}
              /\ t.pc = "post" => ENABLED create_credential_post(i)
              /\ t.pc = "done" => t.posts = 1
    /\ (InPhase("models") /\ pc # "models_fetch" /\ ~fetchOk) =>
         /\ existing_models_cache = EmptyDict
         /\ \A i \in DOMAIN modelTasks :
              LET t == modelTasks[i] IN
              /\ t.pc = "pending" => ENABLED create_model_lookup(i)
              /\ t.pc # "pending" =>
                   /\ t.model_ids = <<>>
                   /\ t.action = "created"
                   /\ t.deletes = <<>>
                   /\ t.pc \in {"post", "done"}
                   /\ t.pc = "post" => ENABLED create_model_post(i)
                   /\ t.pc = "done" => t.posts = 1

\* The read of the model list failed on a remote that held a registration of
\* an expected key; sync_models has returned and every model was created
\* once more.
C14_Witness ==
  /\ Returned("models")
  /\ ~args.force
  /\ ~fetchOk
  /\ \E r \in before : <<r.model_name, r.credential_name>> \in expected_models
  /\ modelTasks # <<>>
  /\ \A i \in DOMAIN modelTasks :
       modelTasks[i].action = "created" /\ modelTasks[i].success

\* main has a readable config and valid component names, and no --dry-run.
ValidRun ==
  /\ Range(args.only) \subseteq valid_components
  /\ ~args.dry_run
  /\ args.config_exists
CredentialPcs == {"credentials_batch", "credentials_prune", "credentials_prune_loop"}
ModelPcs == {"models_fetch", "models_batch", "models_prune", "models_prune_loop"}
\* A step changes the credentials only in the credentials phase, the
\* registrations only in the models phase and the router settings only in a
\* push; a call that fails changes nothing on the remote.
PhaseFrame ==
  /\ remoteCreds' # remoteCreds => pc \in CredentialPcs
  /\ remoteModels' # remoteModels => pc \in ModelPcs
  /\ router' # router => pc \in {"aliases_post", "fallbacks_post"}
  /\ (allOk /\ ~allOk') => remote' = remote

\* C15: no rollback and no abort: what a phase did on the remote is changed
\* by no later phase and by no failed call; a run with a readable config and
\* valid component names, each of whose remote calls returns, reaches "Sync
\* complete" whatever calls failed, and has then entered every selected
\* phase and no other.
C15_NoRollbackNoAbort ==
  /\ [](pc = "complete" => (ValidRun /\ Range(started) = Range(args.only)))
  /\ [][PhaseFrame]_vars
  /\ (pc = "main" /\ ValidRun) ~> (pc = "complete")

\* A run of all four phases has reached "Sync complete" although a call of
\* its credentials phase failed and a later phase changed the remote.
C15_Witness ==
  /\ pc = "complete"
  /\ started = <<"credentials", "models", "aliases", "fallbacks">>
  /\ ~allOk
  /\ \E n \in expected_credentials \cup {RemoteCredOrder[2]} : n \notin remoteCreds
  /\ rt.result = "pushed"

\* C16: nothing is tried twice in one run: there is one task for each
\* expected credential and one for each payload; a task issues at most one
\* create call, a credential task at most one delete, a model task at most
\* one delete for each remote id, and the prune step at most one delete for
\* each name or id; a task whose create failed has returned.
C16_NoRetries ==
  /\ InPhase("credentials") =>
       Len(credTasks) = Len(KnownCredentials(config.credentials))
  /\ (InPhase("models") /\ pc # "models_fetch") => Len(modelTasks) = Len(config.models)
  /\ \A i \in DOMAIN credTasks :
       /\ credTasks[i].posts <= 1
       /\ credTasks[i].deletes <= 1
       /\ (credTasks[i].posts = 1 /\ ~credTasks[i].success) => credTasks[i].pc = "done"
  /\ \A i \in DOMAIN modelTasks :
       /\ modelTasks[i].posts <= 1
       /\ \A id \in Range(modelTasks[i].deletes) :
            Occurrences(modelTasks[i].deletes, id) = 1
       /\ (modelTasks[i].posts = 1 /\ ~modelTasks[i].success) => modelTasks[i].pc = "done"
  /\ \A x \in Range(pruneLog.deletes) : Occurrences(pruneLog.deletes, x) = 1

\* sync_models has returned; the one create call of a task failed after its
\* deletes, and was left at that.
C16_Witness ==
  /\ Returned("models")
  /\ \E i \in DOMAIN modelTasks :
       /\ modelTasks[i].posts = 1
       /\ ~modelTasks[i].success
       /\ Len(modelTasks[i].deletes) >= 2
  /\ ~allOk

\* main must return at once: --dry-run, a component name that is none of
\* the four, or no config file.
MustAbort ==
  \/ args.dry_run
  \/ ~(Range(args.only) \subseteq {"credentials", "models", "aliases", "fallbacks"})
  \/ ~args.config_exists

\* C17: with --dry-run, with a name in --only that is none of the four, or
\* without a config file, main returns without a remote call and without
\* entering a phase, whatever --force and --prune are; and main returns this
\* way in no other case.
C17_AbortBeforeNetwork ==
  /\ (MustAbort /\ pc # "main") =>
       /\ pc = "returned"
       /\ callPhase = 0 /\ maxPhase = 0
       /\ ~wrote /\ allOk
       /\ started = <<>>
       /\ credTasks = <<>> /\ modelTasks = <<>> /\ rt = NoRt
  /\ pc = "returned" => MustAbort

\* main has returned on --dry-run alone, with --force and --prune set.
C17_Witness ==
  /\ pc = "returned"
  /\ args.dry_run /\ args.config_exists
  /\ Range(args.only) \subseteq {"credentials", "models", "aliases", "fallbacks"}
  /\ args.force /\ args.prune
  /\ callPhase = 0

\* C18: when sync_models returns, the status it reports is success when the
\* failed counter is 0, also when all four counters are 0; total failure
\* when failed is positive and equals the sum of the four counters; partial
\* in every other case.  It is reported exactly when the function returns.
C18_StatusIndicator ==
  InPhase("models") =>
    LET sum == counts.created + counts.replaced + counts.deleted + counts.failed IN
    /\ Returned("models") <=> counts.icon # "none"
    /\ Returned("models") =>
         /\ counts.failed = 0 => counts.icon = "success"
         /\ (counts.failed > 0 /\ counts.failed = sum) => counts.icon = "failure"
         /\ (counts.failed > 0 /\ counts.failed # sum) => counts.icon = "partial"

\* sync_models returned with nothing to do, and reported success.
C18_Witness ==
  /\ Returned("models")
  /\ counts = [NoCounts EXCEPT !.icon = "success"]
  /\ modelTasks # <<>>
  /\ callPhase = 2

\* C19 as stated: the request of every model task that issued its create
\* carries updated_at and updated_by; it carries created_at and created_by
\* exactly when the action is "created", not when it is "replaced"; and the
\* actor in it is the one of the run.
C19_AuditStamping ==
  \A i \in DOMAIN modelTasks :
    LET t == modelTasks[i] IN
    t.posts = 1 =>
      /\ {"updated_at", "updated_by"} \subseteq DOMAIN t.audit
      /\ t.audit["updated_by"] = actor
      /\ actor \in {"user_id", "key_prefix"}
      /\ t.action = "created" =>
           /\ {"created_at", "created_by"} \subseteq DOMAIN t.audit
           /\ t.audit["created_by"] = actor
      /\ t.action = "replaced" =>
           {"created_at", "created_by"} \cap DOMAIN t.audit = {}


(***************************************************************************)
(* C20: the deep-merge law.                                                *)
(***************************************************************************)
\* The law, for a result r of merging override o into base b: r is a mapping
\* whose keys are those of b and those of o; a key of b alone holds b's
\* value; a key of both whose two values are mappings holds a value that
\* obeys the law for those two mappings; any other key of o holds o's value
\* as it is.
RECURSIVE MergeLaw(_, _, _)
MergeLaw(b, o, r) ==
  /\ r.kind = "dict"
  /\ DOMAIN r.val = DOMAIN b.val \cup DOMAIN o.val
  /\ \A key \in DOMAIN r.val :
       IF key \notin DOMAIN o.val
         THEN r.val[key] = b.val[key]
         ELSE IF /\ key \in DOMAIN b.val
                 /\ b.val[key].kind = "dict"
                 /\ o.val[key].kind = "dict"
                THEN MergeLaw(b.val[key], o.val[key], r.val[key])
                ELSE r.val[key] = o.val[key]

\* C20: once deep_merge(base, override) has returned, its result obeys the
\* merge law (keys are the union, base-only keys keep base's value, keys
\* whose two values are mappings hold their recursive merge, every other
\* key of override holds override's value wholesale, a list included), and
\* merging an empty override returns a mapping equal to base.
C20_DeepMergeLaw ==
  (gen.fn = "deep_merge" /\ gen.returned) =>
    /\ MergeLaw(gen.base, gen.override, gen.result)
    /\ (gen.override = Dict(EmptyDict) => gen.result = gen.base)

\* A merge that returned where "provider" holds a mapping on both sides,
\* with a key of base alone, a list replaced by another list inside it, and
\* "weight" present in base alone.
C20_Witness ==
  /\ gen.fn = "deep_merge"
  /\ gen.returned
  /\ gen.base = Dict([provider |-> Dict([url |-> Scalar("x"),
                                         models |-> List(<<"y", "x">>)]),
                      weight |-> Scalar("y")])
  /\ gen.override = Dict([provider |-> Dict([models |-> List(<<"x">>)])])
  /\ gen.result = Dict([provider |-> Dict([url |-> Scalar("x"),
                                           models |-> List(<<"x">>)]),
                        weight |-> Scalar("y")])

(***************************************************************************)
(* C21-C24: $extend.                                                       *)
(***************************************************************************)
\* A call that resolved providers has returned.
Resolved == gen.fn \in {"resolve_provider_extensions", "generate_config"} /\ gen.returned
EntryOf(od, name) == od[CHOOSE i \in DOMAIN od : od[i].name = name]
Extends(e) == truthy(dict_get(e.config, "$extend"))
ParentOf(e) == e.config.val["$extend"].val
OwnOf(e) == Dict([k \in DOMAIN e.config.val \ {"$extend"} |-> e.config.val[k]])

\* C21: when resolve_provider_extensions has returned, for every provider A
\* without a (truthy) $extend and every provider B whose $extend names A, in whatever
\* order the two stand, B is resolved and the resolved B is the deep merge
\* of the resolved A with B's own fields: its keys are those of both, a
\* field of A that B does not set holds A's value, a field B sets holds B's
\* value (merged recursively where both values are mappings).
C21_ExtendInheritance ==
  Resolved =>
    \A i, j \in DOMAIN gen.providers :
      LET A == gen.providers[i]
          B == gen.providers[j]
      IN (/\ ~Extends(A)
          /\ Extends(B)
          /\ ParentOf(B) = A.name)
         => /\ A.name \in Names(gen.resolved)
            /\ B.name \in Names(gen.resolved)
            /\ Lookup(gen.resolved, A.name) = OwnOf(A)
            /\ MergeLaw(OwnOf(A), OwnOf(B), Lookup(gen.resolved, B.name))

\* p2 extends p1 and stands before it: the resolved p2 has p1's api_key, its
\* own api_base and the interfaces of both.
C21_Witness ==
  /\ gen.fn = "resolve_provider_extensions"
  /\ gen.returned
  /\ Len(gen.providers) = 2
  /\ gen.providers[1] = Entry("p2", ProviderConfig("p2", Scalar("p1")))
  /\ gen.providers[2] = Entry("p1", ProviderConfig("p1", Absent))
  /\ Lookup(gen.resolved, "p2") =
       Dict([api_key |-> Scalar("k1"), api_base |-> Scalar("u2"),
             interfaces |-> Dict([openai |-> Dict(EmptyDict),
                                  gemini |-> Dict(EmptyDict)])])

\* The mapping without the entry of one name, and the names in order.
Without(od, name) == SelectSeq(od, LAMBDA e : e.name # name)
NamesInOrder(od) == [i \in DOMAIN od |-> od[i].name]

\* C22: a provider whose $extend names a provider that is not resolved when
\* the second loop reaches it is logged and left out of the result; the
\* loop goes on (the call can always take its next step and, when it has
\* returned, both loops have visited every provider); and the result is
\* the one the call gives for the input without the failing provider.
C22_UnknownParentIsPerProvider ==
  gen.fn = "resolve_provider_extensions" =>
    /\ (gen.errors # <<>> /\ ~gen.returned) =>
         ENABLED (extensions_second_pass \/ extensions_return)
    /\ gen.returned =>
         /\ gen.visited = NamesInOrder(gen.providers) \o NamesInOrder(gen.providers)
         /\ \A i \in DOMAIN gen.errors :
              /\ gen.errors[i] \notin Names(gen.resolved)
              /\ gen.resolved =
                   resolve_provider_extensions(Without(gen.providers, gen.errors[i]))

\* p2 extends a provider that is not there, between p1 and p3 which extends
\* p1: p2 is left out, p1 and p3 are resolved.
C22_Witness ==
  /\ gen.fn = "resolve_provider_extensions"
  /\ gen.returned
  /\ NamesInOrder(gen.providers) = <<"p1", "p2", "p3">>
  /\ gen.providers[2].config = ProviderConfig("p2", Scalar("ghost"))
  /\ gen.providers[3].config = ProviderConfig("p3", Scalar("p1"))
  /\ gen.errors = <<"p2">>
  /\ NamesInOrder(gen.resolved) = <<"p1", "p3">>
  /\ "api_base" \in DOMAIN Lookup(gen.resolved, "p3").val

\* C23: when the providers have been resolved, every provider whose $extend
\* is absent, null or empty is in the result with exactly its own fields
\* other than $extend, and no provider of the result has a $extend key.
C23_SuppressedInheritance ==
  Resolved =>
    /\ \A i \in DOMAIN gen.providers :
         LET e == gen.providers[i] IN
           ~Extends(e) =>
             /\ e.name \in Names(gen.resolved)
             /\ Lookup(gen.resolved, e.name) = OwnOf(e)
    /\ \A i \in DOMAIN gen.resolved :
         "$extend" \notin DOMAIN gen.resolved[i].config.val

\* In the base file p2 extends p1; the local file sets p2's $extend to null:
\* generate_config resolves p2 to its own api_base alone, without p1's
\* api_key and interfaces.
C23_Witness ==
  /\ gen.fn = "generate_config"
  /\ gen.returned
  /\ "providers" \in DOMAIN gen.base_file
  /\ NamesInOrder(gen.base_file["providers"]) = <<"p1", "p2">>
  /\ Lookup(gen.base_file["providers"], "p1").val["api_key"] = Scalar("k1")
  /\ Lookup(gen.base_file["providers"], "p2").val["$extend"] = Scalar("p1")
  /\ gen.local_file # NoFile
  /\ "providers" \in DOMAIN gen.local_file
  /\ gen.local_file["providers"] = << Entry("p2", Dict(Setting("$extend", TRUE, Null))) >>
  /\ Lookup(gen.providers, "p2").val["$extend"] = Null
  /\ Lookup(gen.resolved, "p1").val["api_key"] = Scalar("k1")
  /\ Lookup(gen.resolved, "p2") = Dict([api_base |-> Scalar("u2")])

\* The place of a provider in the input, and the provider reached from a
\* name by following $extend k times ("" when the chain ends before).
Pos(od, name) == CHOOSE i \in DOMAIN od : od[i].name = name
RECURSIVE Hop(_, _, _)
Hop(od, name, k) ==
  IF k = 0 THEN name
  ELSE IF name \in Names(od) /\ Extends(EntryOf(od, name))
         THEN Hop(od, ParentOf(EntryOf(od, name)), k - 1)
         ELSE ""
OnCycle(od, name) == \E k \in 1..Len(od) : Hop(od, name, k) = name

C24_PassOrder ==
  (gen.fn = "resolve_provider_extensions" /\ gen.returned) =>
    /\ gen.visited = NamesInOrder(gen.providers) \o NamesInOrder(gen.providers)
    /\ \A i \in DOMAIN gen.providers :
         LET A == gen.providers[i] IN
           /\ OnCycle(gen.providers, A.name) => A.name \notin Names(gen.resolved)
           /\ (/\ Extends(A)
               /\ ParentOf(A) \in Names(gen.providers)
               /\ Extends(EntryOf(gen.providers, ParentOf(A))))
              => LET B == EntryOf(gen.providers, ParentOf(A)) IN
                   /\ A.name \in Names(gen.resolved) <=>
                        (/\ Pos(gen.providers, B.name) < i
                         /\ B.name \in Names(gen.resolved))
                   /\ A.name \in Names(gen.resolved) =>
                        MergeLaw(Lookup(gen.resolved, B.name), OwnOf(A),
                                 Lookup(gen.resolved, A.name))

\* C24: a provider A whose $extend parent B is itself an extending provider
\* is resolved, to the merge of the resolved B with A's own fields, exactly
\* when B stands before A in the providers mapping and B was resolved, and
\* is left out otherwise; a provider on an $extend cycle (one that extends
\* itself included) is left out; and every call returns, after each of the
\* two loops has visited every provider once.
C24_MultiHopDependsOnOrder ==
  /\ []C24_PassOrder
  /\ (gen.fn = "resolve_provider_extensions") ~> gen.returned

\* p3 extends p2, which extends p1 and stands before p3: p3 is resolved with
\* p1's api_base overridden by p2; p1 stands last.
C24_Witness ==
  /\ gen.fn = "resolve_provider_extensions"
  /\ gen.returned
  /\ NamesInOrder(gen.providers) = <<"p2", "p3", "p1">>
  /\ gen.providers[1].config = ProviderConfig("p2", Scalar("p1"))
  /\ gen.providers[2].config = ProviderConfig("p3", Scalar("p2"))
  /\ Lookup(gen.resolved, "p3") =
       Dict([api_key |-> Scalar("k3"), api_base |-> Scalar("u2"),
             access_groups |-> List(<<"g">>),
             interfaces |-> Dict([openai |-> Dict(EmptyDict),
                                  gemini |-> Dict(EmptyDict)])])

(***************************************************************************)
(* C25, C26: $base.                                                        *)
(***************************************************************************)
\* The base target list of a source key: that of the last base entry with
\* the key, empty when there is none.
BaseTargets(base_fallbacks, key) ==
  LET with == {i \in DOMAIN base_fallbacks : key \in DOMAIN base_fallbacks[i]} IN
    IF with = {} THEN <<>>
    ELSE base_fallbacks[CHOOSE i \in with : \A j \in with : j <= i][key]

\* Where the entries before place i of values land in the resolved list.
RECURSIVE Landing(_, _, _)
Landing(values, b, i) ==
  IF i = 1 THEN 0
  ELSE Landing(values, b, i - 1) + (IF values[i - 1] = "$base" THEN Len(b) ELSE 1)

\* r is values with every token replaced, at its place, by the whole of b.
SplicedAt(values, b, r) ==
  /\ Len(r) = Landing(values, b, Len(values) + 1)
  /\ \A i \in DOMAIN values :
       LET at == Landing(values, b, i) IN
         IF values[i] = "$base"
           THEN SubSeq(r, at + 1, at + Len(b)) = b
           ELSE r[at + 1] = values[i]

\* C25: the result of resolve_fallback_base_refs has the entries and keys of
\* its input; the target list of a rule that holds the token is the input
\* list with each occurrence of the token replaced, at its place, by the
\* whole base target list of the same key (empty when the base has none),
\* every other target kept in place and nothing removed as a duplicate; the
\* target list of a rule without the token is the input list.
C25_BaseSplice ==
  (gen.fn = "resolve_fallback_base_refs" /\ gen.returned) =>
    /\ Len(gen.result) = Len(gen.fallbacks)
    /\ \A i \in DOMAIN gen.fallbacks :
         /\ DOMAIN gen.result[i] = DOMAIN gen.fallbacks[i]
         /\ \A key \in DOMAIN gen.fallbacks[i] :
              LET values == gen.fallbacks[i][key]
                  r == gen.result[i][key]
                  b == BaseTargets(gen.base_fallbacks, key)
              IN /\ SplicedAt(values, b, r)
                 /\ "$base" \notin Range(values) => r = values
    /\ (/\ gen.base_fallbacks = << Rule("m", <<"x">>) >>
        /\ gen.fallbacks = << Rule("m", <<"$base", "y">>) >>)
       => gen.result = << Rule("m", <<"x", "y">>) >>

\* Base m: [x, y], rule m: [y, $base, x]: the result is [y, x, y, x], with
\* the base list in the middle and both duplicates kept.
C25_Witness ==
  /\ gen.fn = "resolve_fallback_base_refs"
  /\ gen.returned
  /\ gen.base_fallbacks = << Rule("m", <<"x", "y">>), Rule("n", <<"z">>) >>
  /\ gen.fallbacks = << Rule("m", <<"y", "$base", "x">>) >>
  /\ gen.result = << Rule("m", <<"y", "x", "y", "x">>) >>

(***************************************************************************)
(* C27-C30: models and credentials.                                        *)
(***************************************************************************)
HasKey(e) ==
  /\ "api_key" \in DOMAIN e.config.val
  /\ e.config.val["api_key"] \notin {Null, Scalar("")}
InterfacesOf(e) ==
  IF "interfaces" \in DOMAIN e.config.val THEN DOMAIN e.config.val["interfaces"].val ELSE {}
\* The models mapping of one interface of a provider, as a function.
ModelsOf(e, iface) ==
  LET c == e.config.val["interfaces"].val[iface] IN
    IF c.kind = "dict" /\ "models" \in DOMAIN c.val THEN c.val["models"].val ELSE EmptyDict
\* The (service, interface, model-id) triples of the providers with an api_key.
Triples(providers) ==
  {t \in Names(providers) \X Range(KeyOrder) \X Range(KeyOrder) :
     LET e == EntryOf(providers, t[1]) IN
       /\ HasKey(e)
       /\ t[2] \in InterfacesOf(e)
       /\ t[3] \in DOMAIN ModelsOf(e, t[2])}
\* The places of the registrations of one triple in a list of registrations.
RegistrationsOf(models, t) ==
  {k \in DOMAIN models :
     /\ models[k].litellm_params.val["model"] = Scalar(t[2] \o "/" \o t[3])
     /\ models[k].litellm_params.val["litellm_credential_name"] = Scalar(t[1] \o "-" \o t[2])}
Given(cfg, key) == cfg.kind = "dict" /\ key \in DOMAIN cfg.val

\* C27: the result of resolve_provider_models has as many registrations as
\* there are (service, interface, model-id) triples of providers with an
\* api_key, and exactly one for each triple, with litellm_params.model
\* "{interface}/{model-id}" and litellm_credential_name
\* "{service}-{interface}" whatever the model's litellm_params fragment
\* says; its model_name is the model's model_name when given and the
\* model-id otherwise; its model_info.base_model is the model's
\* model_info.base_model when given and the model_name otherwise.
C27_ModelResolution ==
  (gen.fn = "resolve_provider_models" /\ gen.returned) =>
    /\ Len(gen.result) = Cardinality(Triples(gen.providers))
    /\ \A t \in Triples(gen.providers) :
         LET cfg == ModelsOf(EntryOf(gen.providers, t[1]), t[2])[t[3]]
             at == RegistrationsOf(gen.result, t)
         IN /\ Cardinality(at) = 1
            /\ \A k \in at :
                 LET r == gen.result[k] IN
                   /\ r.model_name = IF Given(cfg, "model_name")
                                       THEN cfg.val["model_name"] ELSE Scalar(t[3])
                   /\ r.model_info.val["base_model"] =
                        IF Given(cfg, "model_info") /\ Given(cfg.val["model_info"], "base_model")
                          THEN cfg.val["model_info"].val["base_model"]
                          ELSE r.model_name

\* p2 and p1 each register openai/gpt; p1's model sets litellm_params.model
\* and litellm_credential_name to other values and keeps its own rpm.
C27_Witness ==
  /\ gen.fn = "resolve_provider_models"
  /\ gen.returned
  /\ NamesInOrder(gen.providers) = <<"p2", "p1">>
  /\ Len(gen.result) = 2
  /\ gen.result[2] =
       [model_name |-> Scalar("gpt"),
        litellm_params |-> Dict([model |-> Scalar("openai/gpt"),
                                 litellm_credential_name |-> Scalar("p1-openai"),
                                 rpm |-> Scalar("1")]),
        model_info |-> Dict([base_model |-> Scalar("gpt")])]
  /\ gen.result[1].litellm_params.val["litellm_credential_name"] = Scalar("p2-openai")

\* The access groups a model or a provider sets: the value of its
\* access_groups key when the key is there and not null.
Sets(cfg) == Given(cfg, "access_groups") /\ cfg.val["access_groups"] # Null
\* The registrations of a returned resolve_provider_models, each with the
\* model config and the provider config it came from.
Registered ==
  {[r |-> gen.result[k], cfg |-> ModelsOf(EntryOf(gen.providers, t[1]), t[2])[t[3]],
    provider |-> EntryOf(gen.providers, t[1]).config] :
     <<t, k>> \in {x \in Triples(gen.providers) \X DOMAIN gen.result :
                     x[2] \in RegistrationsOf(gen.result, x[1])}}
Groups(model_info) == model_info.val["access_groups"]
Omitted(model_info) == "access_groups" \notin DOMAIN model_info.val

\* C30 as stated: model_info.access_groups of a registration is the
\* model-level access_groups when the model sets one, else the
\* provider-level access_groups, and the key is omitted when neither is
\* set; a provider-level value is never used for a model that sets its own.
C30_AccessGroupsOrder ==
  (gen.fn = "resolve_provider_models" /\ gen.returned) =>
    \A x \in Registered :
      IF Sets(x.cfg)
        THEN ~Omitted(x.r.model_info) /\ Groups(x.r.model_info) = x.cfg.val["access_groups"]
        ELSE IF Sets(x.provider)
               THEN /\ ~Omitted(x.r.model_info)
                    /\ Groups(x.r.model_info) = x.provider.val["access_groups"]
               ELSE Omitted(x.r.model_info)

\* C30, amended: the value that applies is the model-level access_groups
\* when the model sets one, else the provider-level one; when that value is
\* a non-empty list it is the registration's model_info.access_groups; when
\* it is empty or neither level sets one, the resolution writes no
\* access_groups key, so model_info has the key only if the model's own
\* model_info fragment has it, with the fragment's value.  A provider-level
\* value is never used for a model that sets its own.
C30_AccessGroupsWhenNonEmpty ==
  (gen.fn = "resolve_provider_models" /\ gen.returned) =>
    \A x \in Registered :
      LET applies == IF Sets(x.cfg) THEN x.cfg.val["access_groups"]
                     ELSE IF Sets(x.provider) THEN x.provider.val["access_groups"]
                     ELSE List(<<>>)
          fragment == IF Given(x.cfg, "model_info") THEN x.cfg.val["model_info"]
                      ELSE Dict(EmptyDict)
      IN /\ IF applies # List(<<>>)
              THEN ~Omitted(x.r.model_info) /\ Groups(x.r.model_info) = applies
              ELSE IF Omitted(fragment) THEN Omitted(x.r.model_info)
                   ELSE /\ ~Omitted(x.r.model_info)
                        /\ Groups(x.r.model_info) = Groups(fragment)
         /\ (Sets(x.cfg) /\ Sets(x.provider)
               /\ x.cfg.val["access_groups"] # x.provider.val["access_groups"])
            => (Omitted(x.r.model_info)
                  \/ Groups(x.r.model_info) # x.provider.val["access_groups"])

\* The provider sets ["g"]; of its two openai models, gpt sets ["a"] and is
\* registered with ["a"], pro sets nothing and is registered with ["g"].
C30_Witness ==
  /\ gen.fn = "resolve_provider_models"
  /\ gen.returned
  /\ \E x, y \in Registered :
       /\ Sets(x.provider)
       /\ x.provider.val["access_groups"] = List(<<"g">>)
       /\ y.provider = x.provider
       /\ Sets(x.cfg)
       /\ ~Omitted(x.r.model_info)
       /\ Groups(x.r.model_info) = List(<<"a">>)
       /\ ~Sets(y.cfg)
       /\ ~Omitted(y.r.model_info)
       /\ Groups(y.r.model_info) = List(<<"g">>)

Generated == gen.fn = "generate_config" /\ gen.returned

\* C26: no target list of the fallbacks generate_config returns holds the
\* token "$base", whatever the base file and the local file are.
C26_BaseNeverPersisted ==
  Generated =>
    \A i \in DOMAIN gen.result.fallbacks :
      \A key \in DOMAIN gen.result.fallbacks[i] :
        "$base" \notin Range(gen.result.fallbacks[i][key])

\* The credential names a provider's registrations would carry.
CredentialNamesOf(name) == {Scalar(name \o "-" \o i) : i \in Range(KeyOrder)}
\* The providers of the merged config that end without an api_key: those
\* resolved without one, and those that were not resolved at all.
Keyless ==
  {n \in Names(gen.providers) :
     n \in Names(gen.resolved) => ~HasKey(EntryOf(gen.resolved, n))}

\* C28: in the result of generate_config, a provider that has no api_key
\* once $extend is resolved (absent, null or empty) has no entry in
\* credentials and no registration in models, whatever interfaces and
\* models it lists.
C28_NoKeyNoEntries ==
  Generated =>
    \A n \in Keyless :
      /\ \A i \in DOMAIN gen.result.credentials :
           gen.result.credentials[i].service_name # n
      /\ \A k \in DOMAIN gen.result.models :
           gen.result.models[k].litellm_params.val["litellm_credential_name"]
             \notin CredentialNamesOf(n)

\* p2 extends p1 and lists a gemini model, p1 lists an openai model and has
\* an empty api_key: neither gets a credential or a registration.
C28_Witness ==
  /\ Generated
  /\ gen.local_file = NoFile
  /\ NamesInOrder(gen.resolved) = <<"p1", "p2">>
  /\ Lookup(gen.resolved, "p2").val["api_key"] = Scalar("")
  /\ InterfacesOf(EntryOf(gen.resolved, "p2")) = {"openai", "gemini"}
  /\ Keyless = {"p1", "p2"}
  /\ gen.result.credentials = <<>>
  /\ gen.result.models = <<>>

\* The (service, interface) pairs of the resolved providers with an api_key.
CredentialPairs ==
  {x \in Names(gen.resolved) \X Range(KeyOrder) :
     /\ HasKey(EntryOf(gen.resolved, x[1]))
     /\ x[2] \in InterfacesOf(EntryOf(gen.resolved, x[1]))}

\* C29: the credentials generate_config returns hold exactly one entry for
\* every (provider, interface) pair of a resolved provider with an api_key,
\* an interface without models included, with that provider's api_key, and
\* no two entries have the same (service_name, provider) pair.
C29_CredentialResolution ==
  Generated =>
    /\ \A x \in CredentialPairs :
         /\ Cardinality({i \in DOMAIN gen.result.credentials :
                           /\ gen.result.credentials[i].service_name = x[1]
                           /\ gen.result.credentials[i].provider = x[2]}) = 1
         /\ \A i \in DOMAIN gen.result.credentials :
              gen.result.credentials[i].service_name = x[1] =>
                gen.result.credentials[i].api_key =
                  EntryOf(gen.resolved, x[1]).config.val["api_key"]
    /\ \A i, j \in DOMAIN gen.result.credentials :
         (/\ gen.result.credentials[i].service_name = gen.result.credentials[j].service_name
          /\ gen.result.credentials[i].provider = gen.result.credentials[j].provider)
         => i = j
    /\ Len(gen.result.credentials) = Cardinality(CredentialPairs)

\* p1 has an api_key, an openai interface with one model and a gemini
\* interface without models; p2 extends it: four credentials, one for each
\* pair, and two registrations.
C29_Witness ==
  /\ Generated
  /\ gen.local_file = NoFile
  /\ CredentialPairs = {"p1", "p2"} \X {"openai", "gemini"}
  /\ Len(gen.result.credentials) = 4
  /\ Len(gen.result.models) = 2
  /\ \E i \in DOMAIN gen.result.credentials :
       gen.result.credentials[i] =
         [service_name |-> "p2", provider |-> "gemini", api_key |-> Scalar("k1"),
          api_base |-> Scalar("u2")]

(***************************************************************************)
(* C32: the counters of the models phase.                                  *)
(***************************************************************************)
\* The tasks of the batch by what became of them: the create call
\* succeeded on a key with no cached id, it succeeded on a key with cached
\* ids (under force), it failed, or the payload was skipped.
CreatedTasks ==
  {i \in DOMAIN modelTasks :
     modelTasks[i].posts = 1 /\ modelTasks[i].success /\ modelTasks[i].model_ids = <<>>}
ReplacedTasks ==
  {i \in DOMAIN modelTasks :
     modelTasks[i].posts = 1 /\ modelTasks[i].success /\ modelTasks[i].model_ids # <<>>}
FailedTasks ==
  {i \in DOMAIN modelTasks : modelTasks[i].posts = 1 /\ ~modelTasks[i].success}
SkippedTasks ==
  {i \in DOMAIN modelTasks : modelTasks[i].posts = 0}

DuplicatesOf(i) == Len(modelTasks[i].model_ids) - 1
RECURSIVE SumDuplicates(_)
SumDuplicates(S) ==
  IF S = {} THEN 0
  ELSE LET i == CHOOSE j \in S : TRUE IN DuplicatesOf(i) + SumDuplicates(S \ {i})

\* C32: once the batch of the models phase is counted, every payload is in
\* exactly one of the four classes; created, replaced are the sizes of the
\* first two, a skipped payload adds to no counter, deleted is the sum of
\* duplicates_deleted over the successful replaces plus the successful prune
\* deletes, and failed is the failed creates plus the failed prune deletes.
C32_CounterAccounting ==
  (InPhase("models") /\ pc \in {"models_prune", "models_prune_loop", AfterPhase("models")}) =>
    LET prune_ok == Len(pruneLog.deletes) - Len(pruneLog.refused) IN
    /\ \A i \in DOMAIN modelTasks :
         Cardinality({S \in {CreatedTasks, ReplacedTasks, FailedTasks, SkippedTasks} :
                        i \in S}) = 1
    /\ \A i \in ReplacedTasks : args.force
    /\ \A i \in SkippedTasks : modelTasks[i].model_ids # <<>> /\ ~args.force
    /\ counts.created = Cardinality(CreatedTasks)
    /\ counts.replaced = Cardinality(ReplacedTasks)
    /\ counts.deleted = SumDuplicates(ReplacedTasks) + prune_ok
    /\ counts.failed = Cardinality(FailedTasks) + Len(pruneLog.refused)
    /\ counts.created + counts.replaced + Cardinality(FailedTasks)
         + Cardinality(SkippedTasks) = Len(modelTasks)

\* A models phase that returned with one payload created, one replaced
\* over duplicates and a prune delete that failed.
C32_Witness ==
  /\ Returned("models")
  /\ CreatedTasks # {}
  /\ \E i \in ReplacedTasks : DuplicatesOf(i) > 0
  /\ pruneLog.refused # <<>>
  /\ counts.failed = Len(pruneLog.refused)
  /\ counts.deleted = 1

(***************************************************************************)
(* C35: the results of the deletes of a forced replace.                    *)
(***************************************************************************)
\* C35: under force, a credential task that found its name and a model
\* task that found n >= 1 cached ids issue their create call whatever the
\* delete calls returned: a task past its deletes is at the create call or
\* has issued it once, a returned one has the action "replaced", for a
\* model with duplicates_deleted = n - 1 and all n deletes issued, and its
\* success is that of the create call; once the batch is counted, failed
\* holds the failed creates and the failed prune deletes only.
C35_DeleteResultsIgnored ==
  /\ InPhase("credentials") =>
       \A i \in DOMAIN credTasks :
         LET t == credTasks[i] IN
         (t.exists /\ args.force /\ t.pc # "pending") =>
           /\ t.pc \in {"delete", "post", "done"}
           /\ t.pc = "delete" => t.deletes = 0 /\ t.posts = 0
           /\ t.pc = "post" => t.deletes = 1 /\ t.posts = 0 /\ t.action = "replaced"
           /\ t.pc = "done" => t.deletes = 1 /\ t.posts = 1 /\ t.action = "replaced"
           /\ t.refused <= t.deletes
  /\ InPhase("models") =>
       /\ \A i \in DOMAIN modelTasks :
            LET t == modelTasks[i]
                n == Len(t.model_ids)
            IN (n >= 1 /\ args.force /\ t.pc # "pending") =>
                 /\ t.pc \in {"delete", "post", "done"}
                 /\ t.pc = "delete" => Len(t.deletes) < n /\ t.posts = 0
                 /\ t.pc = "post" => t.deletes = t.model_ids /\ t.posts = 0
                 /\ t.pc = "done" => t.deletes = t.model_ids /\ t.posts = 1
                 /\ t.pc \in {"post", "done"} =>
                      t.action = "replaced" /\ t.duplicates_deleted = n - 1
                 /\ t.refused <= Len(t.deletes)
       /\ pc \in {"models_prune", "models_prune_loop", AfterPhase("models")} =>
            counts.failed =
              Cardinality({i \in DOMAIN modelTasks :
                             modelTasks[i].posts = 1 /\ ~modelTasks[i].success})
              + Len(pruneLog.refused)

\* A forced models phase returned: every one of the two deletes of a
\* replace failed, its create succeeded, and nothing is counted as failed.
C35_Witness ==
  /\ Returned("models")
  /\ args.force
  /\ \E i \in DOMAIN modelTasks :
       LET t == modelTasks[i] IN
       /\ Len(t.model_ids) = 2 /\ t.refused = 2
       /\ t.posts = 1 /\ t.success
       /\ t.action = "replaced" /\ t.duplicates_deleted = 1
  /\ counts.replaced >= 1
  /\ counts.failed = 0

\* A forced credentials phase in which the delete of an existing credential
\* failed and the create that followed succeeded.
C35_WitnessCredential ==
  /\ InPhase("credentials")
  /\ args.force
  /\ \E i \in DOMAIN credTasks :
       LET t == credTasks[i] IN
       t.exists /\ t.refused = 1 /\ t.posts = 1 /\ t.success /\ t.action = "replaced"

(***************************************************************************)
(* C34: what a forced models sync leaves on the remote.                    *)
(***************************************************************************)
\* Every remote call sync_models has made so far succeeded: the key/info
\* read, the list read, the deletes and creates of the tasks, the read and
\* the deletes of the prune step.
ModelsCallsOk ==
  /\ actor = "user_id"
  /\ fetchOk
  /\ \A i \in DOMAIN modelTasks :
       modelTasks[i].refused = 0 /\ (modelTasks[i].posts = 1 => modelTasks[i].success)
  /\ pruneLog.fetched => pruneLog.ok
  /\ pruneLog.refused = <<>>
\* The registrations the remote holds under a key, and the payloads of the
\* config that resolve to it.
Held(key) == {r \in remoteModels : RegKey(r) = key}
PayloadsOf(key) == {i \in DOMAIN config.models : KeyOf(config.models[i]) = key}

\* C34 as stated: after a forced models sync whose remote calls all
\* succeeded, the remote holds exactly one registration for every expected
\* key, whatever the payload list and the starting remote.
C34_ExactlyOnePerKey ==
  (Returned("models") /\ args.force /\ ModelsCallsOk) =>
    \A key \in expected_models : Cardinality(Held(key)) = 1

\* C34: after a forced models sync whose remote calls all succeeded, the
\* remote holds under every expected key as many registrations as payloads
\* resolve to it, none of them one it held at the start: exactly one for a
\* key of one payload, whatever the starting remote held under it, and two
\* for a key two payloads resolve to.
C34_OnePerPayload ==
  (Returned("models") /\ args.force /\ ModelsCallsOk) =>
    \A key \in expected_models :
      /\ Cardinality(Held(key)) = Cardinality(PayloadsOf(key))
      /\ Held(key) \cap before = {}
      /\ Cardinality(PayloadsOf(key)) = 1 => Cardinality(Held(key)) = 1

\* A forced models sync over a remote that held duplicates under an
\* expected key of one payload: it returned with one registration there.
C34_Witness ==
  /\ Returned("models")
  /\ args.force
  /\ ModelsCallsOk
  /\ \E key \in expected_models :
       /\ Cardinality(PayloadsOf(key)) = 1
       /\ Cardinality({r \in before : RegKey(r) = key}) >= 2
       /\ Cardinality(Held(key)) = 1
       /\ Held(key) \cap before = {}

\* The same over a payload list in which two payloads resolve to one key,
\* the remote holding a registration under it: two registrations are left.
C34_WitnessSharedKey ==
  /\ Returned("models")
  /\ args.force
  /\ ModelsCallsOk
  /\ \E key \in expected_models :
       /\ Cardinality(PayloadsOf(key)) = 2
       /\ \E r \in before : RegKey(r) = key
       /\ Cardinality(Held(key)) = 2

(***************************************************************************)
(* C36: a push carries the whole desired value.                            *)
(***************************************************************************)
\* The desired value of the setting the running phase updates.
Desired == IF rt.key = "model_group_alias" THEN config.aliases ELSE config.fallbacks

\* C36: the router_settings object of an alias push holds under
\* model_group_alias exactly the desired alias map, and that of a fallback
\* push under fallbacks exactly the desired list; after a push that
\* succeeded the remote holds that value under the key, so an alias the
\* remote alone held is gone.
C36_PushReplacesWholeValue ==
  /\ (Pushing \/ Pushed) =>
       /\ rt.key \in DOMAIN rt.sent
       /\ rt.sent[rt.key] = Desired
  /\ (Pushed /\ rt.result = "pushed") =>
       /\ rt.key \in DOMAIN router
       /\ router[rt.key] = Desired
       /\ (rt.key = "model_group_alias" /\ rt.key \in DOMAIN rt.stored) =>
            \A a \in DOMAIN rt.stored[rt.key] \ DOMAIN Desired :
              a \notin DOMAIN router[rt.key]

\* An alias push went through on a remote whose alias map, which the push
\* had read, held an alias the desired map has not: the remote holds the
\* desired map and that alias no more.
C36_Witness ==
  /\ InPhase("aliases")
  /\ rt.pushes = 1 /\ rt.result = "pushed" /\ rt.read_ok
  /\ "model_group_alias" \in DOMAIN rt.stored
  /\ "fast" \in DOMAIN rt.stored.model_group_alias
  /\ "fast" \notin DOMAIN config.aliases
  /\ rt.sent.model_group_alias = config.aliases
  /\ router.model_group_alias = config.aliases

\* A fallback push went through on a remote that held two rules where one
\* is desired: the remote holds the desired list.
C36_WitnessFallbacks ==
  /\ InPhase("fallbacks")
  /\ rt.pushes = 1 /\ rt.result = "pushed" /\ rt.read_ok
  /\ "fallbacks" \in DOMAIN rt.stored
  /\ Len(rt.stored.fallbacks) = 2
  /\ Len(config.fallbacks) = 1
  /\ router.fallbacks = config.fallbacks

(***************************************************************************)
(* C37: an empty desired alias map or fallback list.                       *)
(***************************************************************************)
\* main is about to run the phase, which --only names, with nothing desired.
NothingDesired(phase) ==
  /\ pc = phase \o "?"
  /\ phase \in Range(args.only)
  /\ DOMAIN DesiredOf(phase) = {}

\* C37: update_aliases with an empty desired alias map, and update_fallbacks
\* with an empty desired fallback list, return success in one step that makes
\* no remote call, read or write, whatever force is, and leaves the remote,
\* its aliases and fallbacks included, as it was.
C37_EmptyDesiredIsNoOp ==
  [][\A phase \in {"aliases", "fallbacks"} :
       NothingDesired(phase) =>
         /\ pc' = AfterPhase(phase)
         /\ rt'.result = "nothing to update"
         /\ rt'.pushes = 0
         /\ callHist' = callHist
         /\ remote' = remote]_vars

\* A forced run whose config has no alias returned from update_aliases
\* without a call of that phase, the remote still holding its alias map.
C37_Witness ==
  /\ Returned("aliases")
  /\ args.force
  /\ config.aliases = EmptyDict
  /\ rt.result = "nothing to update"
  /\ rt.pushes = 0
  /\ maxPhase < PhaseNo("aliases")
  /\ "model_group_alias" \in DOMAIN router
  /\ router.model_group_alias # EmptyDict

\* The same for update_fallbacks over a remote that holds fallback rules.
C37_WitnessFallbacks ==
  /\ Returned("fallbacks")
  /\ args.force
  /\ config.fallbacks = <<>>
  /\ rt.result = "nothing to update"
  /\ maxPhase < PhaseNo("fallbacks")
  /\ "fallbacks" \in DOMAIN router
  /\ router.fallbacks # <<>>

(***************************************************************************)
(* C38: a failed read of the router settings.                              *)
(***************************************************************************)
\* update_aliases or update_fallbacks is past its skip test, the desired
\* value being non-empty.
Compared ==
  /\ InPhase("aliases") \/ InPhase("fallbacks")
  /\ DOMAIN Desired # {}

\* C38: a failed GET of the router settings gives empty settings to its
\* caller.  When the read of the skip test fails, the current value it sees
\* is empty, nothing is skipped, and the function goes on to
\* update_router_settings and issues the push (one push by the time it
\* returns).  When the read inside update_router_settings fails, the
\* settings merged are empty and the router_settings object sent holds the
\* key being updated and no other, with the desired value.
C38_ReadFailureStillPushes ==
  /\ (Compared /\ ~rt.compared_ok) =>
       /\ DOMAIN rt.current = {}
       /\ rt.result # "skipped"
       /\ pc \in {"aliases_settings", "fallbacks_settings"} \/ Pushing \/ rt.pushes = 1
  /\ ((Pushing \/ Pushed) /\ ~rt.read_ok) =>
       /\ rt.settings = EmptyDict
       /\ DOMAIN rt.sent = {rt.key}
       /\ rt.sent[rt.key] = Desired

\* An unforced alias update over a remote that already holds the desired
\* alias map next to other settings: both reads failed, so the push was
\* issued all the same and carried model_group_alias alone.
C38_Witness ==
  /\ Returned("aliases")
  /\ ~args.force
  /\ DOMAIN config.aliases # {}
  /\ ~rt.compared_ok /\ ~rt.read_ok
  /\ rt.pushes = 1
  /\ "model_group_alias" \in DOMAIN rt.stored
  /\ rt.stored.model_group_alias = config.aliases
  /\ "routing_strategy" \in DOMAIN rt.stored
  /\ DOMAIN rt.sent = {"model_group_alias"}

(***************************************************************************)
(* C33: the credential a created registration names.                       *)
(***************************************************************************)
\* The expected credential set sync_credentials builds for the config of
\* the run (config.py:446-462): the names of the entries with a known
\* provider.
ExpectedCredentialSet ==
  LET known == KnownCredentials(config.credentials)
  IN {NameOf(known[i]) : i \in DOMAIN known}
\* The run syncs both credentials and models.
SyncsBoth == {"credentials", "models"} \subseteq Range(args.only)
\* The registrations the models phase has created so far.
CreatedRegistrations ==
  {i \in DOMAIN modelTasks : modelTasks[i].posts = 1 /\ modelTasks[i].success}

\* C33 as stated: in a run that syncs credentials and models, every
\* registration the models phase creates names a credential of the expected
\* credential set of the credentials phase, whatever the interface.
C33_ReferentialIntegrity ==
  /\ (SyncsBoth /\ InPhase("credentials") /\ pc # "credentials?") =>
       expected_credentials = ExpectedCredentialSet
  /\ (SyncsBoth /\ InPhase("models")) =>
       \A i \in CreatedRegistrations :
         modelTasks[i].payload.litellm_credential_name \in ExpectedCredentialSet

\* C33 for the interfaces of PROVIDER_CONFIG: a created registration of an
\* interface openai, gemini or anthropic names a credential of the expected
\* set; one of another interface names a credential that is not in it.
C33_KnownInterfacesOnly ==
  /\ (SyncsBoth /\ InPhase("credentials") /\ pc # "credentials?") =>
       expected_credentials = ExpectedCredentialSet
  /\ (SyncsBoth /\ InPhase("models")) =>
       \A i \in CreatedRegistrations :
         LET p == modelTasks[i].payload IN
         (p.litellm_credential_name \in ExpectedCredentialSet)
           <=> (p.model[1] \in PROVIDER_CONFIG)

\* A run that synced credentials and then models created a registration
\* of the interface mistral, whose credential no phase expected or created,
\* next to one of the interface openai.
C33_Witness ==
  /\ SyncsBoth
  /\ Returned("models")
  /\ \E i, j \in CreatedRegistrations :
       /\ modelTasks[i].payload.model[1] = "mistral"
       /\ modelTasks[i].payload.litellm_credential_name \notin ExpectedCredentialSet
       /\ modelTasks[i].payload.litellm_credential_name \notin remoteCreds
       /\ modelTasks[j].payload.litellm_credential_name \in ExpectedCredentialSet

(***************************************************************************)
(* C31: create_api_key.py looks the user up by exact match.                *)
(***************************************************************************)
\* The places in the list the lookup was given of the users whose
\* user_email is exactly the email asked for.
ExactMatches ==
  {i \in DOMAIN keygen.listed : keygen.listed[i].user_email = keygen.email}
FirstExact == keygen.listed[CHOOSE i \in ExactMatches : \A j \in ExactMatches : i <= j]
Exited == keygen.pc = "exited"

\* C31 as stated: when the script has ended, it has issued a user-creation
\* call if and only if no listed user has exactly the email; with an exact
\* match it has created no user and asked the key for that user's user_id;
\* and in both cases it has issued exactly one key-generate call.
C31_ExactMatchThenOneKey ==
  Exited =>
    /\ (keygen.user_new = 1) <=> (ExactMatches = {})
    /\ ExactMatches # {} =>
         keygen.user_new = 0 /\ keygen.key_user_id = FirstExact.user_id
    /\ keygen.key_generate = 1

\* C31: when the script has ended, it has issued a user-creation call if
\* and only if no listed user has exactly the email (a partial match is
\* not enough, a lookup that failed lists nobody); with an exact match it
\* has created no user and issued exactly one key-generate call, for the
\* user_id of the first exact match; without one it has issued exactly one
\* key-generate call, for the new user, when the user creation succeeded,
\* and none when it failed, the process having ended on the error.  No
\* call is issued twice, and the key-generate call comes after the user
\* step.
C31_ExactMatchKeyAfterUser ==
  /\ keygen.pc # "none" => keygen.user_new <= 1 /\ keygen.key_generate <= 1
  /\ keygen.pc \in {"get_user_by_email", "create_user"} => keygen.key_generate = 0
  /\ Exited =>
       /\ (keygen.user_new = 1) <=> (ExactMatches = {})
       /\ ExactMatches # {} =>
            /\ keygen.user_new = 0
            /\ keygen.user = FirstExact
            /\ keygen.key_generate = 1
            /\ keygen.key_user_id = FirstExact.user_id
       /\ ExactMatches = {} =>
            LET created == \E u \in keygen.users :
                             u.user_id = "new" /\ u.user_email = keygen.email
            IN /\ created => keygen.key_generate = 1 /\ keygen.key_user_id = "new"
               /\ ~created =>
                    keygen.key_generate = 0 /\ keygen.exit \in {"http_error", "exception"}

\* The lookup listed a partial match before the exact one: no user was
\* created and the one key was asked for the exact match.
C31_Witness ==
  /\ Exited
  /\ Len(keygen.listed) >= 2
  /\ keygen.listed[1].user_email # keygen.email
  /\ ExactMatches # {}
  /\ keygen.user_new = 0
  /\ keygen.key_generate = 1
  /\ keygen.key_user_id = FirstExact.user_id
  /\ keygen.key_user_id # keygen.listed[1].user_id

\* The lookup listed partial matches only: a user was created and the one
\* key was asked for it.
C31_WitnessCreated ==
  /\ Exited
  /\ keygen.listed # <<>>
  /\ ExactMatches = {}
  /\ keygen.user_new = 1
  /\ keygen.key_generate = 1
  /\ keygen.key_user_id = "new"

====
